---- MODULE Spec2Model ----
(***************************************************************************)
(* Checkpoint / lap detection of f10server.                                *)
(*                                                                         *)
(*   SpecGeom  the geometry kernel of server.js (slab method), applied to  *)
(*             every segment and box with integer coordinates 0..MaxCoord. *)
(*   Spec      the telemetry handler of server.js with its sqlite3         *)
(*             callbacks as steps, and the checkpoint administration       *)
(*             routes.  A message or a request arrives when no statement   *)
(*             of an earlier one is pending (samples are processed one     *)
(*             after another); the statements issued while one sample is   *)
(*             processed run in any order, as node-sqlite3 runs them in    *)
(*             its default parallel mode.                                  *)
(*   SpecAsync     the handler with messages of two players of one team    *)
(*             that arrive while earlier messages are being processed.     *)
(*   SpecCatalog   messages one after another, checkpoints created and     *)
(*             deleted at any moment.                                      *)
(*   SpecMessages  messages of every kind, malformed ones included, with   *)
(*             the fairness of the team lookup.                            *)
(*   SpecFailures  SpecAsync with statements that fail; SpecJournal is     *)
(*             SpecAsync with the journal of the messages kept.            *)
(*   SpecIter  the iterative geometry kernel of part_000.                  *)
(*   SpecPlane the same on longer segments of one plane.                   *)
(*   SpecAdmin the checkpoint routes of part_000 (POST, PUT, DELETE).      *)
(*   Spec000   the telemetry handler of part_000.                          *)
(*   SpecCorners   POST /api/checkpoints of part_000 with the two corners  *)
(*             of a box in either order.                                   *)
(*   SpecRoster    Spec000 with POST /api/player-team.                     *)
(*   SpecSync  the lap synchronisation of part_001, messages and requests  *)
(*             one after another; SpecSyncAsync with messages in flight    *)
(*             together.                                                   *)
(***************************************************************************)
EXTENDS Integers, Sequences, FiniteSets, TLC

(***************************************************************************)
(* Bounds of the model.                                                    *)
(***************************************************************************)
\* coordinates of the points and box corners given to the geometry kernel
MaxCoord == 2
\* telemetry messages received in one behaviour
MaxSamples == 3
\* checkpoints created in one behaviour (ids 1..MaxCheckpoints)
MaxCheckpoints == 3
\* telemetry messages received in one behaviour in which messages arrive
\* while earlier ones are being processed
MaxOverlap == 2

\* the iterative kernel is called with x and y in -1..MaxIterCoord and z in
\* 0..MaxIterDepth
MaxIterCoord == 2

MaxIterDepth == 1

\* the largest y of the segments and boxes of the plane x = 0
MaxPlaneCoord == 3

\* part_001: sync messages received one after another, the largest
\* lap_count of a message, and the calls of
\* DELETE /api/players/:id/lap
MaxSync == 3

MaxTarget == 2

MaxLapRequests == 2

\* the largest id POST /api/teams gives a team
MaxTeams == 3

\* requests of the administration routes served in one behaviour
MaxAdminRequests == 1

(***************************************************************************)
(* Program constants.                                                      *)
(***************************************************************************)
\* server.js:162  "lap_count + 1 >= 20"
LapCap == 20

\* lap_count of team 1 where the behaviours of SpecAsync start: one lap
\* below the cap
InitialLaps == LapCap - 1

Axes == <<"x", "y", "z">>

Point(x, y, z) == [x |-> x, y |-> y, z |-> z]

(***************************************************************************)
(* Rational numbers n/d with d > 0, for the parameters t of the slab       *)
(* method.  The coordinates are small integers, so the IEEE quotients the  *)
(* code computes compare exactly as these fractions do.                    *)
(***************************************************************************)
Frac(n, d) == IF d > 0 THEN <<n, d>> ELSE <<-n, -d>>

FracLess(a, b) == a[1] * b[2] < b[1] * a[2]

\* Math.max, Math.min (server.js:98-99)
FracMax(a, b) == IF FracLess(a, b) THEN b ELSE a

FracMin(a, b) == IF FracLess(b, a) THEN b ELSE a

\* Math.abs(dir[axis]) < 1e-8 on integer coordinates (server.js:92)
NearZero(d) == d = 0

(***************************************************************************)
(* server.js:91-101, one iteration of the loop over the axes.  range      *)
(* holds tmin and tmax; returned is set once the function has returned     *)
(* false from inside the loop.                                             *)
(***************************************************************************)
ReturnedFalse == [returned |-> TRUE, tmin |-> <<0, 1>>, tmax |-> <<1, 1>>]

SlabAxisNoSwap(range, p1c, dirc, lo, hi) ==
  IF range.returned THEN range
  ELSE IF NearZero(dirc)
       THEN IF p1c < lo \/ p1c > hi THEN ReturnedFalse ELSE range
       ELSE LET t1 == Frac(lo - p1c, dirc)
                t2 == Frac(hi - p1c, dirc)
                tmin == FracMax(range.tmin, t1)
                tmax == FracMin(range.tmax, t2)
            IN  IF FracLess(tmax, tmin) THEN ReturnedFalse
                ELSE [returned |-> FALSE, tmin |-> tmin, tmax |-> tmax]

SlabAxisOpenFace(range, p1c, dirc, lo, hi) ==
  IF range.returned THEN range
  ELSE IF NearZero(dirc)
       THEN IF p1c <= lo \/ p1c >= hi THEN ReturnedFalse ELSE range
       ELSE LET a == Frac(lo - p1c, dirc)
                b == Frac(hi - p1c, dirc)
                t1 == IF FracLess(b, a) THEN b ELSE a
                t2 == IF FracLess(b, a) THEN a ELSE b
                tmin == FracMax(range.tmin, t1)
                tmax == FracMin(range.tmax, t2)
            IN  IF FracLess(tmax, tmin) THEN ReturnedFalse
                ELSE [returned |-> FALSE, tmin |-> tmin, tmax |-> tmax]

SlabAxis(range, p1c, dirc, lo, hi) ==
  IF range.returned THEN range
  ELSE IF NearZero(dirc)
       THEN IF p1c < lo \/ p1c > hi THEN ReturnedFalse ELSE range
       ELSE LET a == Frac(lo - p1c, dirc)
                b == Frac(hi - p1c, dirc)
                t1 == IF FracLess(b, a) THEN b ELSE a
                t2 == IF FracLess(b, a) THEN a ELSE b
                tmin == FracMax(range.tmin, t1)
                tmax == FracMin(range.tmax, t2)
            IN  IF FracLess(tmax, tmin) THEN ReturnedFalse
                ELSE [returned |-> FALSE, tmin |-> tmin, tmax |-> tmax]

RECURSIVE SlabLoop(_, _, _, _, _, _)
SlabLoop(i, range, p1, p2, aabbMin, aabbMax) ==
  IF i > Len(Axes) THEN range
  ELSE LET axis == Axes[i]
       IN  SlabLoop(i + 1,
                    SlabAxis(range, p1[axis], p2[axis] - p1[axis],
                             aabbMin[axis], aabbMax[axis]),
                    p1, p2, aabbMin, aabbMax)

\* server.js:87-104
lineSegmentIntersectsAABB(p1, p2, aabbMin, aabbMax) ==
  ~SlabLoop(1, [returned |-> FALSE, tmin |-> <<0, 1>>, tmax |-> <<1, 1>>],
            p1, p2, aabbMin, aabbMax).returned

(***************************************************************************)
(* What the kernel is specified to decide, stated without the algorithm.   *)
(***************************************************************************)
PointInBox(p, aabbMin, aabbMax) ==
  \A i \in 1..Len(Axes) :
     aabbMin[Axes[i]] <= p[Axes[i]] /\ p[Axes[i]] <= aabbMax[Axes[i]]

\* The parameters t in [0,1] whose point lies in the box form a closed
\* interval whose ends are 0, 1 or (c - p1.a)/(p2.a - p1.a) for an integer c:
\* when it is not empty it holds a fraction k/d with 1 <= d <= MaxCoord.  The
\* point at t = k/d is in the box iff d*min <= d*p1 + k*(p2-p1) <= d*max.
SegmentMeetsBox(p1, p2, aabbMin, aabbMax) ==
  \E d \in 1..MaxCoord : \E k \in 0..d :
     \A i \in 1..Len(Axes) :
        LET a == Axes[i]
            c == d * p1[a] + k * (p2[a] - p1[a])
        IN  d * aabbMin[a] <= c /\ c <= d * aabbMax[a]

(***************************************************************************)
(* The database of server.js (tables created at server.js:20-84) and the   *)
(* statements in flight.                                                   *)
(***************************************************************************)
Players == {"p1", "p2"}

TeamIds == {1, 2}

NoTeam == 0

\* db.get finds no row (undefined)
NoRow == [undefined |-> TRUE]

\* SQL NULL in a column, null in a JSON text
Null == [null |-> TRUE]

\* a member absent from a JSON object
Undefined == [undefined |-> TRUE]

\* the values of the members of a parsed message
JsNumber(v) == [number |-> v]

JsString(v) == [string |-> v]

JsObject(v) == [object |-> v]

JsBoolean(v) == [boolean |-> v]

\* !v is false (server.js:216)
Truthy(v) ==
  v \notin {Undefined, Null, JsNumber(0), JsString(""), JsBoolean(FALSE)}

\* positions reported by the clients
PosA == Point(0, 0, 0)

PosB == Point(4, 0, 0)

Positions == {PosA, PosB}

\* the message a client sends for a player at a position
Telemetry(uuid, position) ==
  [UUID |-> JsString(uuid), timestamp |-> JsNumber(1),
   position |-> JsObject(position), velocity |-> JsObject(Point(0, 0, 0)),
   yaw |-> JsNumber(0), pitch |-> JsNumber(0)]

\* a text JSON.parse throws on (server.js:213)
NotJson == [unparsable |-> TRUE]

\* messages that lack a member, carry a text where a number belongs, or
\* carry null
MalformedMessages ==
  { [Telemetry("p1", PosB) EXCEPT !.UUID = Undefined],
    [Telemetry("p1", PosB) EXCEPT !.position = Undefined],
    [Telemetry("p1", PosB) EXCEPT !.yaw = Undefined],
    [Telemetry("p1", PosB) EXCEPT !.yaw = JsString("north")],
    [Telemetry("p1", PosB) EXCEPT !.pitch = Null] }

\* messages sent back: { error: 'Invalid JSON format' }, { error: 'Failed to
\* process data' }, status 'success' with '(no team assigned)', and status
\* 'success' with the team id (server.js:218, 352, 250-254, 340-345)
AckKinds == {"invalid", "failed", "noTeam", "processed"}

\* bodies of POST /api/checkpoints: a regular checkpoint crossed on the way
\* between PosA and PosB, and a start/finish checkpoint around PosB
CheckpointRequests ==
  { [is_start_finish |-> 0, min |-> Point(1, -1, -1), max |-> Point(2, 1, 1),
     order_index |-> 1],
    [is_start_finish |-> 1, min |-> Point(3, -1, -1), max |-> Point(5, 1, 1),
     order_index |-> 2] }

VARIABLES
  gp1, gp2, gmin, gmax,      \* arguments of one call of the kernel
  gcalled, gres,             \* whether the call was made, and its result
  checkpoints,               \* table checkpoints: a set of rows
  nextCheckpointId,          \* AUTOINCREMENT of checkpoints.id
  teams,                     \* table teams: id -> [lap_count, is_active]
  nextTeamId,                \* AUTOINCREMENT of teams.id
  adminRequests,             \* requests of the administration routes served
  running,                   \* the process has not ended
  player_teams,              \* table player_teams: player_uuid -> team_id
  player_checkpoints,        \* table player_checkpoints: rows <<uuid, id>>
  player_positions_history,  \* table player_positions_history: uuid -> row
  pending,                   \* statements handed to sqlite3, not yet run
  received,                  \* telemetry messages received so far
  recv,                      \* per player, the last two positions received
  lapPhase,                  \* per player: "credited" once a lap is
                             \* credited, "cleared" once its DELETE ran,
                             \* "collecting" before the first lap and once
                             \* every regular checkpoint is held again
  errors,                    \* errors reported by the crossing callbacks
  players,                   \* table players: player_uuid -> number of rows
  sent,                      \* per message received, in order of arrival,
                             \* the number of messages sent back for it
  acks,                      \* messages sent on the connections, by kind
  credited,                  \* per player, the laps its crossings credited
  journal,                   \* entries: per message received, in order of
                             \* arrival, the messages sent back for it,
                             \* whether one of its statements failed and
                             \* whether it completed a lap; kept where on
  player_positions,          \* part_000, table player_positions: per
                             \* player, its rows in order of insertion
  current_lap_count,         \* part_000, players.current_lap_count
  playerRows,                \* part_001, table players: a set of rows
  laps,                      \* part_001, table laps: a set of rows
  nextLapId,                 \* part_001, AUTOINCREMENT of laps.id
  answered                   \* part_001, messages and responses sent, by kind

geomVars == <<gp1, gp2, gmin, gmax, gcalled, gres>>

dbVars == <<checkpoints, nextCheckpointId, teams, player_teams,
            player_checkpoints, player_positions_history>>

\* the position log and what was sent on the connections
logVars == <<players, sent, acks>>

\* what only the handler of part_000 reads and writes
part000Vars == <<player_positions, current_lap_count>>

\* what only part_001 reads and writes
part001Vars == <<playerRows, laps, nextLapId, answered>>

\* part_001 sends { error: 'Failed to process data' } (part_001:195),
\* { error: 'Invalid JSON format' } (part_001:159), status
\* 'success' with 'Added ...', 'Removed ...' or '... is already correct'
\* (part_001:89-93, 121-125, 130-134); DELETE /api/players/:id/lap
\* answers 404 or status 'success' (part_001:350-358)
AnswerKinds ==
  {"failed", "invalid", "added", "removed", "correct", "404", "deleted"}

\* part_001:21-46  the tables after their creation
SyncIdle ==
  /\ playerRows = {}
  /\ laps = {}
  /\ nextLapId = 1
  /\ answered = [k \in AnswerKinds |-> 0]

\* the empty journal; the specifications whose claims read it keep it (on)
Journal(on) == [on |-> on, entries |-> <<>>]

vars == <<gp1, gp2, gmin, gmax, gcalled, gres, running, nextTeamId,
          adminRequests, checkpoints,
          nextCheckpointId,
          teams, player_teams, player_checkpoints, player_positions_history,
          pending, received, recv, lapPhase, errors, players, sent, acks,
          credited, journal, player_positions, current_lap_count,
                 part001Vars>>

Coords == 0..MaxCoord

Points == [x : Coords, y : Coords, z : Coords]

GeomIdle ==
  /\ gp1 = Point(0, 0, 0) /\ gp2 = Point(0, 0, 0)
  /\ gmin = Point(0, 0, 0) /\ gmax = Point(0, 0, 0)
  /\ gcalled = FALSE /\ gres = FALSE

ServerIdle ==
  /\ checkpoints = {}
  /\ nextCheckpointId = 1
  /\ teams = [id \in TeamIds |-> [lap_count |-> 0, is_active |-> 1]]
  /\ nextTeamId = Cardinality(TeamIds) + 1
  /\ adminRequests = 0
  /\ running = TRUE
  /\ player_teams = [uuid \in Players |-> NoTeam]
  /\ player_checkpoints = {}
  /\ player_positions_history = [uuid \in Players |-> NoRow]
  /\ pending = {}
  /\ received = 0
  /\ recv = [uuid \in Players |-> <<>>]
  /\ lapPhase = [uuid \in Players |-> "collecting"]
  /\ errors = 0
  /\ players = [uuid \in Players |-> 0]
  /\ sent = <<>>
  /\ acks = [k \in AckKinds |-> 0]
  /\ credited = [uuid \in Players |-> 0]
  /\ journal = Journal(FALSE)
  /\ player_positions = [uuid \in Players |-> <<>>]
  /\ current_lap_count = [uuid \in Players |-> 0]
  /\ SyncIdle

\* every segment and every box with min <= max, before the call; the tables
\* of the server are empty and stay so
GeomInit ==
  /\ gp1 \in Points /\ gp2 \in Points
  /\ gmin \in Points /\ gmax \in Points
  /\ \A i \in 1..Len(Axes) : gmin[Axes[i]] <= gmax[Axes[i]]
  /\ gcalled = FALSE /\ gres = FALSE
  /\ ServerIdle

CallKernel ==
  /\ ~gcalled
  /\ gcalled' = TRUE
  /\ gres' = lineSegmentIntersectsAABB(gp1, gp2, gmin, gmax)
  /\ UNCHANGED <<gp1, gp2, gmin, gmax, checkpoints, nextCheckpointId, teams, nextTeamId, adminRequests, running,
                 player_teams, player_checkpoints, player_positions_history,
                 pending, received, recv, lapPhase, errors, players, sent, acks,
                 credited, journal, player_positions, current_lap_count,
                 part001Vars>>

GeomNext == CallKernel

SpecGeom == GeomInit /\ [][GeomNext]_vars

\* C1: the kernel answers true exactly when the closed segment and the closed
\* box share a point (faces, edges and corners included).
C1_SlabExact ==
  gcalled => (gres = SegmentMeetsBox(gp1, gp2, gmin, gmax))

\* a segment that passes through the box with both ends outside of it, in
\* the direction of decreasing x
C1_Witness ==
  /\ gcalled /\ gres
  /\ ~PointInBox(gp1, gmin, gmax)
  /\ ~PointInBox(gp2, gmin, gmax)
  /\ gp2.x < gp1.x

\* C2: for a degenerate segment the kernel answers the point-in-closed-box
\* test of p1.
C2_DegenerateIsPointTest ==
  (gcalled /\ gp1 = gp2) => (gres = PointInBox(gp1, gmin, gmax))

\* a degenerate segment on a face of the box
C2_Witness ==
  /\ gcalled /\ gres
  /\ gp1 = gp2
  /\ gp1.x = gmin.x
  /\ gmin.x < gmax.x

(***************************************************************************)
(* Queries of server.js.                                                   *)
(***************************************************************************)
\* server.js:244-248  the player's team, when it has one that is active
TeamRow(uuid) ==
  IF player_teams[uuid] \in DOMAIN teams
     /\ teams[player_teams[uuid]].is_active = 1
  THEN player_teams[uuid] ELSE NoTeam

\* server.js:294, 305-306  the segment to test, or none
TrajectorySegmentFromFirst(posRow, position) ==
  IF posRow # NoRow THEN <<posRow.prev, position>> ELSE <<position, position>>

TrajectorySegment(posRow, position) ==
  IF posRow # NoRow /\ posRow.prev # Null
  THEN <<posRow.prev, position>> ELSE <<>>

\* server.js:278-290  the row written to player_positions_history
HistoryRow(posRow, position) ==
  IF posRow # NoRow
  THEN [prev |-> posRow.curr, curr |-> position]
  ELSE [prev |-> position, curr |-> position]

\* server.js:308-312  the checkpoints of the listing the segment intersects
Crossed(rows, prevPos, currPos) ==
  {c \in rows : lineSegmentIntersectsAABB(prevPos, currPos, c.min, c.max)}

\* server.js:314-317
CollectedRow(uuid, id) == <<uuid, id>> \in player_checkpoints

\* the checkpoint ids in the rows of one player
Collected(uuid) == {r[2] : r \in {q \in player_checkpoints : q[1] = uuid}}

\* ids of the regular checkpoints of the catalog
RegularIds == {c.id : c \in {k \in checkpoints : k.is_start_finish = 0}}

\* the number of INSERTs and DELETEs the table checkpoints has seen: ids are
\* handed out in sequence and never again
CatalogVersion ==
  (nextCheckpointId - 1) +
  Cardinality((1..(nextCheckpointId - 1)) \ {c.id : c \in checkpoints})

\* server.js:107-112  COUNT(DISTINCT pc.checkpoint_id) over the join
CollectedCountNoJoin(uuid) == Cardinality(Collected(uuid))

CollectedCount(uuid) == Cardinality(Collected(uuid) \cap RegularIds)

\* server.js:121-125
TotalCountAll == Cardinality(checkpoints)

TotalCount == Cardinality(RegularIds)

\* server.js:132
HasAllAlways(collectedCount, totalCount) == TRUE

HasAllCheckpoints(collectedCount, totalCount) == collectedCount >= totalCount

\* server.js:162  the UPDATE of one team row
LapUpdateFromStaleRead(row) ==
  [lap_count |-> InitialLaps + 1,
   is_active |-> IF InitialLaps + 1 >= LapCap THEN 0 ELSE 1]

LapUpdateCapExact(row) ==
  [lap_count |-> row.lap_count + 1,
   is_active |-> IF row.lap_count + 1 = LapCap THEN 0 ELSE 1]

LapUpdateByTwo(row) ==
  [lap_count |-> row.lap_count + 2,
   is_active |-> IF row.lap_count + 2 >= LapCap THEN 0 ELSE 1]

LapUpdate(row) ==
  [lap_count |-> row.lap_count + 1,
   is_active |-> IF row.lap_count + 1 >= LapCap THEN 0 ELSE 1]

Last2(seq) == IF Len(seq) > 2 THEN Tail(seq) ELSE seq

Idle == pending = {}

Finish(t) == pending' = pending \ {t}

Continue(t, next) == pending' = (pending \ {t}) \cup next

\* every regular checkpoint of the catalog is collected: what
\* checkPlayerCheckpoints answers (server.js:106-135), true without a
\* regular checkpoint
HoldsAll(uuid, held, regular) == regular \subseteq held

\* lapPhase after a step that leaves the player with the collected ids held
PhaseAfter(uuid, phase, held, regular) ==
  IF phase = "cleared" /\ HoldsAll(uuid, held, regular)
  THEN "collecting" ELSE phase

(***************************************************************************)
(* ws.on('message'), server.js:211-354.  For a message that passes the    *)
(* check of server.js:216-217 the INSERT INTO players and the team lookup  *)
(* are handed to sqlite3, which runs them in any order.                    *)
(***************************************************************************)
\* server.js:216-217
ValidJsonFormat(playerData) ==
  /\ Truthy(playerData.UUID)
  /\ Truthy(playerData.timestamp)
  /\ Truthy(playerData.position)
  /\ Truthy(playerData.velocity)
  /\ playerData.yaw # Undefined
  /\ playerData.pitch # Undefined

\* what is recorded of one message: replies are the kinds of the messages
\* sent back for it, in order
Entry(replies) ==
  [replies |-> replies, failed |-> FALSE, lapCompleted |-> FALSE]

\* the journal with a new entry, with the messages sent back for message n,
\* with the lap message n completed, with a failed statement of message n
Logged(entry) ==
  IF journal.on THEN [journal EXCEPT !.entries = Append(@, entry)]
  ELSE journal

LoggedReplies(n, replies) ==
  IF journal.on THEN [journal EXCEPT !.entries[n].replies = @ \o replies]
  ELSE journal

LoggedLap(n) ==
  IF journal.on THEN [journal EXCEPT !.entries[n].lapCompleted = TRUE]
  ELSE journal

LoggedFailure(n) ==
  IF journal.on THEN [journal EXCEPT !.entries[n].failed = TRUE]
  ELSE journal

Receive(data) ==
  /\ running
  /\ received < MaxSamples
  /\ received' = received + 1
  /\ IF data = NotJson
     THEN /\ sent' = Append(sent, 1)
          /\ acks' = [acks EXCEPT !["failed"] = @ + 1]
          /\ journal' = Logged(Entry(<<"failed">>))
          /\ UNCHANGED <<players, recv, pending>>
     ELSE IF ~ValidJsonFormat(data)
     THEN /\ sent' = Append(sent, 1)
          /\ acks' = [acks EXCEPT !["invalid"] = @ + 1]
          /\ journal' = Logged(Entry(<<"invalid">>))
          /\ UNCHANGED <<players, recv, pending>>
     ELSE LET uuid == data.UUID.string
              position == data.position.object
          IN  /\ recv' = [recv EXCEPT ![uuid] = Last2(Append(@, position))]
              /\ pending' = pending \cup
                   {[op |-> "storePosition", n |-> received + 1,
                     UUID |-> uuid, playerData |-> data],
                    [op |-> "getTeam", n |-> received + 1, UUID |-> uuid,
                     position |-> position, playerData |-> data]}
              /\ players' = players
              /\ sent' = Append(sent, 0)
              /\ journal' = Logged(Entry(<<>>))
              /\ acks' = acks
  /\ UNCHANGED <<part001Vars, part000Vars, geomVars, running, nextTeamId, adminRequests, dbVars, lapPhase, errors, credited>>

\* a statement handed over without a callback fails: sqlite3 emits 'error'
\* on the Statement, which has no listener (server.js:223-241, 272-291), so
\* the exception is uncaught and the process ends; no callback runs any more
Crash ==
  /\ running' = FALSE
  /\ pending' = {}

\* the columns of players are NOT NULL (server.js:21-34): the INSERT needs
\* the coordinates of position and velocity, and a yaw and a pitch that
\* are not null
Storable(playerData) ==
  /\ "object" \in DOMAIN playerData.position
  /\ "object" \in DOMAIN playerData.velocity
  /\ playerData.yaw \notin {Undefined, Null}
  /\ playerData.pitch \notin {Undefined, Null}

\* server.js:223-241  sqlite3 runs the INSERT INTO players; stmt.run has
\* no callback: when the INSERT fails no row is written and the process ends
StorePosition ==
  \E t \in pending :
    /\ t.op = "storePosition"
    /\ IF Storable(t.playerData)
       THEN /\ players' = [players EXCEPT ![t.UUID] = @ + 1]
            /\ Finish(t)
            /\ UNCHANGED running
       ELSE /\ players' = players
            /\ Crash
    /\ UNCHANGED <<part001Vars, part000Vars, geomVars, nextTeamId,
                   adminRequests, dbVars, received, recv,
                   lapPhase, errors, sent, acks, credited, journal>>

\* server.js:249-256, 340-345  what the callback of the team lookup sends
Replies(teamId) ==
  IF teamId = NoTeam THEN <<"noTeam">> ELSE <<"processed">>

\* server.js:248-258, 261, 340-345  callback of the team lookup
GetTeam ==
  \E t \in pending :
    /\ t.op = "getTeam"
    /\ IF TeamRow(t.UUID) = NoTeam
       THEN Finish(t)
       ELSE Continue(t, {[op |-> "getHistory", n |-> t.n, UUID |-> t.UUID,
                          position |-> t.position,
                          teamId |-> TeamRow(t.UUID)]})
    /\ LET replies == Replies(TeamRow(t.UUID))
       IN  /\ acks' = [k \in AckKinds |->
                         acks[k] + Cardinality({i \in 1..Len(replies) :
                                                  replies[i] = k})]
           /\ sent' = [sent EXCEPT ![t.n] = @ + Len(replies)]
           /\ journal' = LoggedReplies(t.n, replies)
    /\ UNCHANGED <<part001Vars, part000Vars, geomVars, running, nextTeamId, adminRequests, dbVars, received, recv, lapPhase, errors,
                   players, credited>>

\* server.js:265-295  callback of the history read: the history write and,
\* with a previous position, the checkpoint listing are handed to sqlite3
GetHistory ==
  \E t \in pending :
    /\ t.op = "getHistory"
    /\ LET posRow == player_positions_history[t.UUID]
           seg == TrajectorySegment(posRow, t.position)
       IN  Continue(t,
             {[op |-> "updatePos", n |-> t.n, UUID |-> t.UUID,
               row |-> HistoryRow(posRow, t.position)]}
             \cup
             (IF seg = <<>> THEN {}
              ELSE {[op |-> "listCheckpoints", n |-> t.n, UUID |-> t.UUID,
                     teamId |-> t.teamId,
                     prevPos |-> seg[1], currPos |-> seg[2]]}))
    /\ UNCHANGED <<part001Vars, part000Vars, geomVars, running, nextTeamId, adminRequests, dbVars, received, recv, lapPhase, errors>>
    /\ UNCHANGED <<logVars, credited, journal>>

\* server.js:272-291  INSERT OR REPLACE INTO player_positions_history
UpdatePos ==
  \E t \in pending :
    /\ t.op = "updatePos"
    /\ player_positions_history' =
         [player_positions_history EXCEPT ![t.UUID] = t.row]
    /\ Finish(t)
    /\ UNCHANGED <<part001Vars, part000Vars, geomVars, running, nextTeamId, adminRequests, checkpoints, nextCheckpointId, teams,
                   player_teams, player_checkpoints, received, recv,
                   lapPhase, errors>>
    /\ UNCHANGED <<logVars, credited, journal>>

\* server.js:295-317  callback of the listing: one collected-check per
\* intersected checkpoint; version records the catalog the listing read.  ORDER BY order_index fixes the order in which
\* they are handed to sqlite3, not the order in which sqlite3 runs them.
ListCheckpoints ==
  \E t \in pending :
    /\ t.op = "listCheckpoints"
    /\ Continue(t, {[op |-> "getCollected", n |-> t.n, UUID |-> t.UUID,
                     teamId |-> t.teamId, checkpointId |-> c.id,
                     version |-> CatalogVersion] :
                    c \in Crossed(checkpoints, t.prevPos, t.currPos)})
    /\ UNCHANGED <<part001Vars, part000Vars, geomVars, running, nextTeamId, adminRequests, dbVars, received, recv, lapPhase, errors>>
    /\ UNCHANGED <<logVars, credited, journal>>

\* what follows the collected-check (server.js:317-323)
AfterCollectedCheckUnfiltered(t, collectedRow) ==
  {[op |-> "getIsStartFinish", n |-> t.n, UUID |-> t.UUID,
    teamId |-> t.teamId, checkpointId |-> t.checkpointId,
    version |-> t.version]}

AfterCollectedCheck(t, collectedRow) ==
  IF collectedRow THEN {}
  ELSE {[op |-> "getIsStartFinish", n |-> t.n, UUID |-> t.UUID,
         teamId |-> t.teamId, checkpointId |-> t.checkpointId,
         version |-> t.version]}

\* server.js:317-323
GetCollected ==
  \E t \in pending :
    /\ t.op = "getCollected"
    /\ Continue(t, AfterCollectedCheck(t, CollectedRow(t.UUID, t.checkpointId)))
    /\ UNCHANGED <<part001Vars, part000Vars, geomVars, running, nextTeamId, adminRequests, dbVars, received, recv, lapPhase, errors>>
    /\ UNCHANGED <<logVars, credited, journal>>

\* the lookup of the crossed checkpoint with a missing row taken for a
\* regular checkpoint
GetIsStartFinishIgnoresMissing ==
  \E t \in pending :
    /\ t.op = "getIsStartFinish"
    /\ errors' = errors
    /\ IF \E c \in checkpoints : c.id = t.checkpointId /\ c.is_start_finish = 1
       THEN Continue(t, {[op |-> "countCollected", n |-> t.n,
                          UUID |-> t.UUID, teamId |-> t.teamId,
                          checkpointId |-> t.checkpointId,
                          version |-> t.version]})
       ELSE Continue(t, {[op |-> "insertCollected", n |-> t.n,
                          UUID |-> t.UUID,
                          checkpointId |-> t.checkpointId]})
    /\ UNCHANGED <<part001Vars, part000Vars, geomVars, running, nextTeamId, adminRequests, dbVars, received, recv, lapPhase>>
    /\ UNCHANGED <<logVars, credited, journal>>

\* server.js:138-151, 187-192  processCheckpointCrossing, first callback
GetIsStartFinish ==
  \E t \in pending :
    /\ t.op = "getIsStartFinish"
    /\ LET found == {c \in checkpoints : c.id = t.checkpointId}
       IN  IF found = {}
           THEN /\ Finish(t)
                /\ errors' = errors + 1
           ELSE /\ errors' = errors
                /\ IF \E c \in found : c.is_start_finish = 1
                   THEN Continue(t, {[op |-> "countCollected", n |-> t.n,
                                      UUID |-> t.UUID, teamId |-> t.teamId,
                                      checkpointId |-> t.checkpointId,
                                      version |-> t.version]})
                   ELSE Continue(t, {[op |-> "insertCollected", n |-> t.n,
                                      UUID |-> t.UUID,
                                      checkpointId |-> t.checkpointId]})
    /\ UNCHANGED <<part001Vars, part000Vars, geomVars, running, nextTeamId, adminRequests, dbVars, received, recv, lapPhase>>
    /\ UNCHANGED <<logVars, credited, journal>>

\* server.js:107-121  checkPlayerCheckpoints, first query.  heldAll records
\* whether the player holds every regular checkpoint of the catalog now.
CountCollected ==
  \E t \in pending :
    /\ t.op = "countCollected"
    /\ Continue(t, {[op |-> "countTotal", n |-> t.n, UUID |-> t.UUID,
                     teamId |-> t.teamId, checkpointId |-> t.checkpointId,
                     collectedCount |-> CollectedCount(t.UUID),
                     heldAll |-> RegularIds \subseteq Collected(t.UUID),
                     version |-> t.version]})
    /\ UNCHANGED <<part001Vars, part000Vars, geomVars, running, nextTeamId, adminRequests, dbVars, received, recv, lapPhase, errors>>
    /\ UNCHANGED <<logVars, credited, journal>>

\* server.js:125-132, 153-164, 183-185  second query and its callbacks
CountTotal ==
  \E t \in pending :
    /\ t.op = "countTotal"
    /\ IF HasAllCheckpoints(t.collectedCount, TotalCount)
       THEN Continue(t, {[op |-> "updateTeam", n |-> t.n, UUID |-> t.UUID,
                          teamId |-> t.teamId,
                          checkpointId |-> t.checkpointId,
                          heldAll |-> t.heldAll]})
       ELSE Finish(t)
    /\ UNCHANGED <<part001Vars, part000Vars, geomVars, running, nextTeamId, adminRequests, dbVars, received, recv, lapPhase, errors>>
    /\ UNCHANGED <<logVars, credited, journal>>

\* server.js:161-173  UPDATE teams, then the DELETE is handed to sqlite3
UpdateTeam ==
  \E t \in pending :
    /\ t.op = "updateTeam"
    /\ teams' = [id \in DOMAIN teams |->
                   IF id = t.teamId THEN LapUpdate(teams[id]) ELSE teams[id]]
    /\ Continue(t, {[op |-> "clearCollected", n |-> t.n, UUID |-> t.UUID,
                     checkpointId |-> t.checkpointId]})
    /\ lapPhase' = [lapPhase EXCEPT ![t.UUID] = "credited"]
    /\ UNCHANGED <<part001Vars, part000Vars, geomVars, running, nextTeamId, adminRequests, checkpoints, nextCheckpointId, player_teams,
                   player_checkpoints, player_positions_history, received,
                   recv, errors>>
    /\ credited' = [credited EXCEPT ![t.UUID] = @ + 1]
    /\ journal' = LoggedLap(t.n)
    /\ UNCHANGED logVars

\* the DELETE without its WHERE player_uuid = ?
ClearCollectedOfAll ==
  \E t \in pending :
    /\ t.op = "clearCollected"
    /\ player_checkpoints' = {}
    /\ lapPhase' = [lapPhase EXCEPT ![t.UUID] =
                      PhaseAfter(t.UUID, "cleared", {}, RegularIds)]
    /\ Finish(t)
    /\ UNCHANGED <<part001Vars, part000Vars, geomVars, running, nextTeamId, adminRequests, checkpoints, nextCheckpointId, teams,
                   player_teams, player_positions_history, received, recv,
                   errors>>
    /\ UNCHANGED <<logVars, credited, journal>>

\* server.js:171-181  DELETE FROM player_checkpoints WHERE player_uuid = ?
ClearCollected ==
  \E t \in pending :
    /\ t.op = "clearCollected"
    /\ player_checkpoints' = {r \in player_checkpoints : r[1] # t.UUID}
    /\ lapPhase' = [lapPhase EXCEPT ![t.UUID] =
                      PhaseAfter(t.UUID, "cleared", {}, RegularIds)]
    /\ Finish(t)
    /\ UNCHANGED <<part001Vars, part000Vars, geomVars, running, nextTeamId, adminRequests, checkpoints, nextCheckpointId, teams,
                   player_teams, player_positions_history, received, recv,
                   errors>>
    /\ UNCHANGED <<logVars, credited, journal>>

\* server.js:189-200  INSERT OR IGNORE INTO player_checkpoints
InsertCollected ==
  \E t \in pending :
    /\ t.op = "insertCollected"
    /\ player_checkpoints' = player_checkpoints \cup {<<t.UUID, t.checkpointId>>}
    /\ lapPhase' = [lapPhase EXCEPT ![t.UUID] =
                      PhaseAfter(t.UUID, @,
                                 Collected(t.UUID) \cup {t.checkpointId},
                                 RegularIds)]
    /\ Finish(t)
    /\ UNCHANGED <<part001Vars, part000Vars, geomVars, running, nextTeamId, adminRequests, checkpoints, nextCheckpointId, teams,
                   player_teams, player_positions_history, received, recv,
                   errors>>
    /\ UNCHANGED <<logVars, credited, journal>>

(***************************************************************************)
(* Checkpoint administration.                                              *)
(***************************************************************************)
\* server.js:524-548  POST /api/checkpoints
CreateCheckpoint(body) ==
  /\ running
  /\ nextCheckpointId <= MaxCheckpoints
  /\ checkpoints' = checkpoints \cup
       {[id |-> nextCheckpointId, is_start_finish |-> body.is_start_finish,
         min |-> body.min, max |-> body.max,
         order_index |-> body.order_index]}
  /\ nextCheckpointId' = nextCheckpointId + 1
  /\ lapPhase' = [uuid \in Players |->
                    PhaseAfter(uuid, lapPhase[uuid], Collected(uuid),
                               {c.id : c \in {k \in checkpoints' :
                                                k.is_start_finish = 0}})]
  /\ UNCHANGED <<part001Vars, part000Vars, geomVars, running, nextTeamId, adminRequests, teams, player_teams, player_checkpoints,
                 player_positions_history, pending, received, recv, errors>>
  /\ UNCHANGED <<logVars, credited, journal>>

\* server.js:550-571  DELETE /api/checkpoints/:id of a checkpoint that exists
DeleteCheckpoint(id) ==
  /\ running
  /\ \E c \in checkpoints : c.id = id
  /\ checkpoints' = {c \in checkpoints : c.id # id}
  /\ lapPhase' = [uuid \in Players |->
                    PhaseAfter(uuid, lapPhase[uuid], Collected(uuid),
                               {c.id : c \in {k \in checkpoints' :
                                                k.is_start_finish = 0}})]
  /\ UNCHANGED <<part001Vars, part000Vars, geomVars, running, nextTeamId, adminRequests, nextCheckpointId, teams, player_teams,
                 player_checkpoints, player_positions_history, pending,
                 received, recv, errors>>
  /\ UNCHANGED <<logVars, credited, journal>>

(***************************************************************************)
(* Team administration: POST /api/teams, DELETE /api/teams/:id and         *)
(* POST /api/player-team.  part_000:470-517 has the same two team routes.  *)
(***************************************************************************)
\* bodies of POST /api/teams
TeamRequests ==
  { [name |-> JsString("red"), color |-> JsString("#f00")],
    [name |-> JsString("red"), color |-> Undefined] }

\* server.js:462-485  POST /api/teams: 400 without a name or a color,
\* otherwise INSERT INTO teams (name, color) with the defaults lap_count 0
\* and is_active 1
CreateTeam(body) ==
  /\ running
  /\ nextTeamId <= MaxTeams
  /\ adminRequests < MaxAdminRequests
  /\ adminRequests' = adminRequests + 1
  /\ IF Truthy(body.name) /\ Truthy(body.color)
     THEN /\ teams' = [id \in DOMAIN teams \cup {nextTeamId} |->
                         IF id = nextTeamId
                         THEN [lap_count |-> 0, is_active |-> 1]
                         ELSE teams[id]]
          /\ nextTeamId' = nextTeamId + 1
     ELSE UNCHANGED <<teams, nextTeamId>>
  /\ UNCHANGED <<part001Vars, part000Vars, geomVars, running, checkpoints,
                 nextCheckpointId, player_teams, player_checkpoints,
                 player_positions_history, pending, received, recv, lapPhase,
                 errors, logVars, credited, journal>>

\* server.js:487-509  DELETE /api/teams/:id: DELETE FROM teams WHERE id = ?,
\* 404 when no row was deleted; the rows of player_teams stay
DeleteTeam(teamId) ==
  /\ running
  /\ adminRequests < MaxAdminRequests
  /\ adminRequests' = adminRequests + 1
  /\ teams' = [id \in DOMAIN teams \ {teamId} |-> teams[id]]
  /\ UNCHANGED <<part001Vars, part000Vars, geomVars, running, nextTeamId, checkpoints,
                 nextCheckpointId, player_teams, player_checkpoints,
                 player_positions_history, pending, received, recv, lapPhase,
                 errors, logVars, credited, journal>>

\* bodies of POST /api/player-team
PlayerTeamRequests ==
  [player_uuid : {JsString(uuid) : uuid \in Players},
   team_id : {JsNumber(id) : id \in 1..MaxTeams} \cup {Undefined}]

\* server.js:574-597  POST /api/player-team: 400 without a player_uuid or a
\* team_id, otherwise INSERT OR REPLACE INTO player_teams; no foreign key
\* is enforced, the team need not exist
AssignPlayerTeam(body) ==
  /\ running
  /\ adminRequests < MaxAdminRequests
  /\ adminRequests' = adminRequests + 1
  /\ IF Truthy(body.player_uuid) /\ Truthy(body.team_id)
     THEN player_teams' = [player_teams EXCEPT ![body.player_uuid.string] =
                                                  body.team_id.number]
     ELSE UNCHANGED player_teams
  /\ UNCHANGED <<part001Vars, part000Vars, geomVars, running, nextTeamId, checkpoints,
                 nextCheckpointId, teams, player_checkpoints,
                 player_positions_history, pending, received, recv, lapPhase,
                 errors, logVars, credited, journal>>

\* the three routes, called with every body and id
TeamAdmin ==
  \/ \E body \in TeamRequests : CreateTeam(body)
  \/ \E teamId \in 1..MaxTeams : DeleteTeam(teamId)
  \/ \E body \in PlayerTeamRequests : AssignPlayerTeam(body)

(***************************************************************************)
(* The state after construction: players.db holds two teams, p1 is in     *)
(* team 1 and p2 in no team; no checkpoint and no telemetry yet.           *)
(***************************************************************************)
Init ==
  /\ GeomIdle
  /\ checkpoints = {}
  /\ nextCheckpointId = 1
  /\ teams = [id \in TeamIds |-> [lap_count |-> 0, is_active |-> 1]]
  /\ nextTeamId = Cardinality(TeamIds) + 1
  /\ adminRequests = 0
  /\ running = TRUE
  /\ player_teams = [uuid \in Players |-> IF uuid = "p1" THEN 1 ELSE NoTeam]
  /\ player_checkpoints = {}
  /\ player_positions_history = [uuid \in Players |-> NoRow]
  /\ pending = {}
  /\ received = 0
  /\ recv = [uuid \in Players |-> <<>>]
  /\ lapPhase = [uuid \in Players |-> "collecting"]
  /\ errors = 0
  /\ players = [uuid \in Players |-> 0]
  /\ sent = <<>>
  /\ acks = [k \in AckKinds |-> 0]
  /\ credited = [uuid \in Players |-> 0]
  /\ journal = Journal(FALSE)
  /\ player_positions = [uuid \in Players |-> <<>>]
  /\ current_lap_count = [uuid \in Players |-> 0]
  /\ SyncIdle

\* a message or a request arrives when no statement is pending
Next ==
  \/ Idle /\ \E uuid \in Players, position \in Positions :
               Receive(Telemetry(uuid, position))
  \/ StorePosition
  \/ GetTeam
  \/ GetHistory
  \/ UpdatePos
  \/ ListCheckpoints
  \/ GetCollected
  \/ GetIsStartFinish
  \/ CountCollected
  \/ CountTotal
  \/ UpdateTeam
  \/ ClearCollected
  \/ InsertCollected
  \/ Idle /\ \E body \in CheckpointRequests : CreateCheckpoint(body)
  \/ Idle /\ \E id \in 1..MaxCheckpoints : DeleteCheckpoint(id)
  \/ Idle /\ TeamAdmin

Spec == Init /\ [][Next]_vars


(***************************************************************************)
(* Claims about the telemetry handler.                                     *)
(***************************************************************************)
CatalogIds == {c.id : c \in checkpoints}

\* C3: the segment tested on a sample runs from the position of the sample
\* received just before it to the position of the sample itself.
C3_SegmentIsLastTwo ==
  \A t \in pending :
     t.op = "listCheckpoints" => <<t.prevPos, t.currPos>> = recv[t.UUID]

\* C4: while a player has sent a single sample, nothing beyond the position
\* row and the history write is in flight for it, it holds no checkpoint and
\* no lap was credited for it.
C4_FirstSampleNoCrossing ==
  \A uuid \in Players :
     Len(recv[uuid]) <= 1 =>
       /\ Collected(uuid) = {}
       /\ credited[uuid] = 0
       /\ \A t \in pending :
             t.UUID = uuid =>
               t.op \in {"storePosition", "getTeam", "getHistory", "updatePos"}

\* the first sample of a teamed player, inside the start/finish box of the
\* catalog, after its history read
C4_Witness ==
  \E t \in pending :
     /\ t.op = "updatePos"
     /\ Len(recv[t.UUID]) = 1
     /\ TeamRow(t.UUID) # NoTeam
     /\ \E c \in checkpoints : PointInBox(t.row.curr, c.min, c.max)

\* C5: a lap counter changes only by the UPDATE of a start/finish crossing
\* whose evaluation found every regular checkpoint of the catalog among the
\* player's collected ids, and then by exactly one.
C5_LapOnlyWhenAllHeld ==
  [][\A id \in DOMAIN teams \cap DOMAIN teams' :
       teams'[id].lap_count # teams[id].lap_count =>
         \E t \in pending :
            /\ t.op = "updateTeam"
            /\ t \notin pending'
            /\ t.teamId = id
            /\ t.heldAll
            /\ teams'[id].lap_count = teams[id].lap_count + 1]_vars

\* a lap was credited with more than one regular checkpoint in the catalog,
\* one of them created after the first was collected
C5_Witness ==
  /\ \E id \in DOMAIN teams : teams[id].lap_count > 0
  /\ Cardinality(RegularIds) >= 2
  /\ \E uuid \in Players : Collected(uuid) = {} /\ lapPhase[uuid] = "cleared"

\* C6: once a lap is credited to a player, whose collected set it clears,
\* no further lap is credited to it while the catalog has a regular
\* checkpoint and the player has not collected every regular checkpoint
\* again.
C6_NoLapUntilRecollected ==
  [][\A t \in pending :
       (t.op = "updateTeam" /\ t \notin pending') =>
          ~(lapPhase[t.UUID] # "collecting" /\ RegularIds # {})]_vars

\* C7: when the evaluation of a start/finish crossing finds every regular
\* checkpoint of the catalog collected, whatever deleted checkpoints the
\* player also holds, the lap is credited.
C7_DeletionLowersRequirement ==
  [][\A t \in pending :
       /\ (t.op = "countTotal" /\ t \notin pending' /\ t.heldAll) =>
             \E u \in pending' :
                u.op = "updateTeam" /\ u.UUID = t.UUID /\ u.teamId = t.teamId
       /\ (t.op = "updateTeam" /\ t \notin pending' /\ t.teamId \in DOMAIN teams) =>
             teams'[t.teamId].lap_count = teams[t.teamId].lap_count + 1]_vars

\* the lap is about to be credited to a player that holds a deleted
\* checkpoint besides the regular checkpoints left in the catalog
C7_Witness ==
  \E t \in pending :
     /\ t.op = "updateTeam"
     /\ RegularIds # {}
     /\ RegularIds \subseteq Collected(t.UUID)
     /\ Collected(t.UUID) \ CatalogIds # {}

\* C8: the crossing of a checkpoint the player already holds ends at the
\* collected-check: nothing more is handed to sqlite3 for it, and the
\* collected rows and the teams are unchanged.
C8_HeldCrossingIsNoOp ==
  [][\A t \in pending :
       (/\ t.op = "getCollected"
        /\ t \notin pending'
        /\ CollectedRow(t.UUID, t.checkpointId)) =>
          /\ pending' = pending \ {t}
          /\ player_checkpoints' = player_checkpoints
          /\ teams' = teams]_vars

\* a crossing of a regular checkpoint of the catalog that the player holds
C8_Witness ==
  \E t \in pending :
     /\ t.op = "getCollected"
     /\ t.checkpointId \in RegularIds
     /\ CollectedRow(t.UUID, t.checkpointId)

\* C9: no player has more collected rows than the catalog has regular
\* checkpoints.
C9_CollectedAtMostRegular ==
  \A uuid \in Players : Cardinality(Collected(uuid)) <= TotalCount

\* C10: the start/finish crossing of a player whose evaluation finds a
\* regular checkpoint missing ends there: the collected rows, the teams and
\* the error count are unchanged and nothing more is handed to sqlite3.
C10_IncompleteCrossingChangesNothing ==
  [][\A t \in pending :
       /\ (t.op = "countCollected" /\ t \notin pending') =>
             /\ player_checkpoints' = player_checkpoints
             /\ teams' = teams
             /\ errors' = errors
       /\ (t.op = "countTotal" /\ t \notin pending' /\ ~t.heldAll) =>
             /\ pending' = pending \ {t}
             /\ player_checkpoints' = player_checkpoints
             /\ teams' = teams
             /\ errors' = errors]_vars

\* a start/finish crossing under evaluation by a player that holds one of
\* two regular checkpoints
C10_Witness ==
  \E t \in pending :
     /\ t.op = "countTotal"
     /\ ~t.heldAll
     /\ t.collectedCount = 1

(***************************************************************************)
(* SpecAsync: the same handler with messages that arrive while the         *)
(* statements of earlier ones are pending.  The behaviour starts late in a *)
(* race: the catalog holds a regular and a start/finish checkpoint, both   *)
(* players are in team 1, one lap below the cap, and each has reported     *)
(* PosA once; every message reports PosB, beyond both checkpoints.         *)
(***************************************************************************)
\* the row INSERT INTO checkpoints stores for a body (server.js:533-536)
CheckpointRow(id, body) ==
  [id |-> id, is_start_finish |-> body.is_start_finish,
   min |-> body.min, max |-> body.max, order_index |-> body.order_index]

RegularRequest == CHOOSE body \in CheckpointRequests : body.is_start_finish = 0

StartFinishRequest ==
  CHOOSE body \in CheckpointRequests : body.is_start_finish = 1

AsyncState ==
  /\ GeomIdle
  /\ checkpoints = {CheckpointRow(1, RegularRequest),
                    CheckpointRow(2, StartFinishRequest)}
  /\ nextCheckpointId = 3
  /\ teams = [id \in TeamIds |->
                IF id = 1 THEN [lap_count |-> InitialLaps, is_active |-> 1]
                ELSE [lap_count |-> 0, is_active |-> 1]]
  /\ nextTeamId = Cardinality(TeamIds) + 1
  /\ adminRequests = 0
  /\ running = TRUE
  /\ player_teams = [uuid \in Players |-> 1]
  /\ player_checkpoints = {}
  /\ player_positions_history =
       [uuid \in Players |-> [prev |-> PosA, curr |-> PosA]]
  /\ pending = {}
  /\ received = 0
  /\ recv = [uuid \in Players |-> <<PosA>>]
  /\ lapPhase = [uuid \in Players |-> "collecting"]
  /\ errors = 0
  /\ players = [uuid \in Players |-> 1]
  /\ sent = <<>>
  /\ acks = [k \in AckKinds |-> 0]
  /\ credited = [uuid \in Players |-> 0]
  /\ player_positions = [uuid \in Players |-> <<>>]
  /\ current_lap_count = [uuid \in Players |-> 0]
  /\ SyncIdle

AsyncInit == AsyncState /\ journal = Journal(FALSE)

AsyncNext ==
  \/ received < MaxOverlap /\ \E uuid \in Players :
                                Receive(Telemetry(uuid, PosB))
  \/ StorePosition
  \/ GetTeam
  \/ GetHistory
  \/ UpdatePos
  \/ ListCheckpoints
  \/ GetCollected
  \/ GetIsStartFinish
  \/ CountCollected
  \/ CountTotal
  \/ UpdateTeam
  \/ ClearCollected
  \/ InsertCollected

SpecAsync == AsyncInit /\ [][AsyncNext]_vars

(***************************************************************************)
(* Claims about overlapping messages.                                      *)
(***************************************************************************)
TeamPlayers(id) == {uuid \in Players : player_teams[uuid] = id}

RECURSIVE CreditedLaps(_)
CreditedLaps(S) ==
  IF S = {} THEN 0
  ELSE LET uuid == CHOOSE u \in S : TRUE
       IN  credited[uuid] + CreditedLaps(S \ {uuid})

\* C11: the lap count of team 1 is the count it started with plus one for
\* every lap credited to one of its players, however the callbacks of the
\* players interleave: two players that each complete a lap raise it by 2.
C11_NoLostIncrement ==
  teams[1].lap_count = InitialLaps + CreditedLaps(TeamPlayers(1))

\* both players of team 1 completed a lap, the UPDATE of each ran before
\* the DELETE of the other
C11_Witness ==
  /\ credited["p1"] = 1 /\ credited["p2"] = 1
  /\ \E t \in pending : t.op = "clearCollected" /\ t.UUID = "p1"
  /\ \E t \in pending : t.op = "clearCollected" /\ t.UUID = "p2"
  /\ teams[1].lap_count = InitialLaps + 2

\* C12: no step sets is_active of a deactivated team back to 1.
C12_DeactivationMonotonic ==
  [][\A id \in TeamIds :
       teams[id].is_active = 0 => teams'[id].is_active = 0]_vars

\* a lap was credited to a team that the lap before had deactivated
C12_Witness ==
  /\ teams[1].lap_count > LapCap
  /\ teams[1].is_active = 0

\* C13: no lap count exceeds the cap.
C13_LapCountAtMostCap ==
  \A id \in TeamIds : teams[id].lap_count <= LapCap

\* nothing is pending for a player
Settled(uuid) == \A t \in pending : t.UUID # uuid

\* C14: once the messages of a player of an active team are processed, its
\* history row holds the last two positions received from it, in the order
\* of their arrival.
C14_HistoryHoldsLastTwo ==
  \A uuid \in Players :
     (Settled(uuid) /\ TeamRow(uuid) # NoTeam /\ Len(recv[uuid]) = 2) =>
        player_positions_history[uuid] =
          [prev |-> recv[uuid][1], curr |-> recv[uuid][2]]

\* C15: a player that has sent one message since the start, now processed,
\* has the trajectory window it has when its message is processed before
\* any message of the other player: the position it had, then the position
\* of the message.
C15_WindowIndependentOfOtherPlayer ==
  \A uuid \in Players :
     (Settled(uuid) /\ players[uuid] = 2) =>
        player_positions_history[uuid] = [prev |-> PosA, curr |-> PosB]

(***************************************************************************)
(* Claims about the order of the crossings of one message.                 *)
(***************************************************************************)
\* order_index of the checkpoint of the catalog with an id
OrderIndex(id) == (CHOOSE c \in checkpoints : c.id = id).order_index

\* C16: when the collected checkpoints of a player are counted for a
\* start/finish crossing, no crossing of the same message of a regular
\* checkpoint with a lower order_index, which the player lacks, is still to
\* be recorded.
C16_AscendingOrderWithinSample ==
  [][\A t \in pending :
       (t.op = "countCollected" /\ t \notin pending') =>
          ~\E u \in pending :
              /\ u.n = t.n
              /\ u.op \in {"getCollected", "getIsStartFinish",
                            "insertCollected"}
              /\ u.checkpointId \in RegularIds
              /\ t.checkpointId \in CatalogIds
              /\ ~CollectedRow(u.UUID, u.checkpointId)
              /\ OrderIndex(u.checkpointId) < OrderIndex(t.checkpointId)]_vars

(***************************************************************************)
(* SpecCatalog: messages are processed one after another, checkpoints are  *)
(* created and deleted at any moment.  It starts where SpecAsync starts.   *)
(***************************************************************************)
CatalogNext ==
  \/ Idle /\ received < MaxOverlap /\ \E uuid \in Players :
                                          Receive(Telemetry(uuid, PosB))
  \/ StorePosition
  \/ GetTeam
  \/ GetHistory
  \/ UpdatePos
  \/ ListCheckpoints
  \/ GetCollected
  \/ GetIsStartFinish
  \/ CountCollected
  \/ CountTotal
  \/ UpdateTeam
  \/ ClearCollected
  \/ InsertCollected
  \/ \E body \in CheckpointRequests : CreateCheckpoint(body)
  \/ \E id \in 1..MaxCheckpoints : DeleteCheckpoint(id)
  \/ TeamAdmin

SpecCatalog == AsyncInit /\ [][CatalogNext]_vars

\* C17: every query on the catalog made for a crossing reads the catalog
\* that the listing of the same message read.
C17_OneCatalogVersion ==
  [][\A t \in pending :
       (/\ t.op \in {"getIsStartFinish", "countCollected", "countTotal"}
        /\ t \notin pending') => CatalogVersion = t.version]_vars

(***************************************************************************)
(* SpecMessages: messages of every kind, well-formed or not, that arrive   *)
(* while earlier ones are being processed.  It starts where SpecAsync      *)
(* starts.  sqlite3 runs every statement handed to it and calls its       *)
(* callback, hence the fairness condition on the team lookup.              *)
(***************************************************************************)
Messages ==
  {Telemetry("p1", PosB)} \cup MalformedMessages
    \cup {NotJson}

MessagesNext ==
  \/ received < MaxOverlap /\ \E data \in Messages : Receive(data)
  \/ StorePosition
  \/ GetTeam
  \/ GetHistory
  \/ UpdatePos
  \/ ListCheckpoints
  \/ GetCollected
  \/ GetIsStartFinish
  \/ CountCollected
  \/ CountTotal
  \/ UpdateTeam
  \/ ClearCollected
  \/ InsertCollected

SpecMessages == AsyncInit /\ [][MessagesNext]_vars /\ WF_vars(GetTeam)

\* C18: no message is answered twice, and every message received is
\* answered.
C18_EveryMessageAnsweredOnce ==
  /\ [](\A n \in 1..Len(sent) : sent[n] <= 1)
  /\ \A n \in 1..MaxOverlap :
        (Len(sent) >= n) ~> (Len(sent) >= n /\ sent[n] = 1)

\* every member of the message is there and has its type
WellFormed(data) ==
  /\ data # NotJson
  /\ DOMAIN data.UUID = {"string"} /\ data.UUID.string # ""
  /\ DOMAIN data.timestamp = {"number"}
  /\ DOMAIN data.position = {"object"}
  /\ DOMAIN data.velocity = {"object"}
  /\ DOMAIN data.yaw = {"number"}
  /\ DOMAIN data.pitch = {"number"}

\* C19: a step that receives a message either hands the team lookup of a
\* well-formed message to sqlite3, or sends one error and leaves the
\* position log and the statements in flight as they are.
C19_MalformedRejected ==
  [][received' = received + 1 =>
       \/ \E t \in pending' \ pending :
             t.op = "getTeam" /\ WellFormed(t.playerData)
       \/ /\ pending' = pending
          /\ players' = players
          /\ sent' = Append(sent, 1)
          /\ acks'["invalid"] + acks'["failed"] =
               acks["invalid"] + acks["failed"] + 1]_vars

\* C20: once the messages of a player without a team are processed, its
\* history row holds the last position received from it.
C20_UnteamedWindowAdvances ==
  \A uuid \in Players :
     (Settled(uuid) /\ player_teams[uuid] = NoTeam /\ recv[uuid] # <<>>) =>
        /\ player_positions_history[uuid] # NoRow
        /\ player_positions_history[uuid].curr = recv[uuid][Len(recv[uuid])]

(***************************************************************************)
(* The geometry kernel of part_000: a bisection of the segment, at most    *)
(* Iterations steps.  dot and dir are halved up to Iterations times, so    *)
(* with integer arguments they are multiples of 2^-30, which IEEE doubles  *)
(* hold exactly: a value is <<a, f>> for a + f / 2^30 with 0 <= f < 2^30.   *)
(***************************************************************************)
\* part_000:98  "i<30"
Iterations == 30

DyadicUnit == 1073741824

DyInt(v) == <<v, 0>>

DyAdd(u, v) ==
  IF u[2] + v[2] >= DyadicUnit
  THEN <<u[1] + v[1] + 1, u[2] + v[2] - DyadicUnit>>
  ELSE <<u[1] + v[1], u[2] + v[2]>>

DyNeg(u) == IF u[2] = 0 THEN <<-u[1], 0>> ELSE <<-u[1] - 1, DyadicUnit - u[2]>>

DyHalf(u) ==
  <<u[1] \div 2, ((IF u[1] % 2 = 1 THEN DyadicUnit ELSE 0) + u[2]) \div 2>>

\* comparisons with an integer corner coordinate, and with 0
DyGeq(u, c) == u[1] >= c

DyLeq(u, c) == u[1] < c \/ (u[1] = c /\ u[2] = 0)

DyNegative(u) == u[1] < 0

DyPositive(u) == u[1] > 0 \/ (u[1] = 0 /\ u[2] > 0)

DyZero(u) == u[1] = 0 /\ u[2] = 0

\* part_000:121-123
xor(val1, val2) == (val1 /\ ~val2) \/ (~val1 /\ val2)

\* the test of the dot with the faces of the box left out
DotInBoxOpen(dot, aabbMin, aabbMax) ==
  \A i \in 1..Len(Axes) :
     /\ ~DyLeq(dot[Axes[i]], aabbMin[Axes[i]])
     /\ ~DyGeq(dot[Axes[i]], aabbMax[Axes[i]])

\* the test of the dot without the z axis
DotInBoxNoZ(dot, aabbMin, aabbMax) ==
  \A i \in 1..2 :
     DyGeq(dot[Axes[i]], aabbMin[Axes[i]]) /\ DyLeq(dot[Axes[i]], aabbMax[Axes[i]])

\* part_000:99-100  the dot is in the box
DotInBox(dot, aabbMin, aabbMax) ==
  \A i \in 1..Len(Axes) :
     DyGeq(dot[Axes[i]], aabbMin[Axes[i]]) /\ DyLeq(dot[Axes[i]], aabbMax[Axes[i]])

\* part_000:103-105, 110-112  the two xor terms of one axis
TowardsAxis(dotc, dirc, lo, hi) ==
  \/ xor(DyNegative(dirc), ~DyGeq(dotc, lo))
  \/ xor(DyPositive(dirc), ~DyLeq(dotc, hi))

\* part_000:103-105  the dot will move towards the box
MovesTowards(dot, dir, aabbMin, aabbMax) ==
  \A i \in 1..Len(Axes) :
     LET a == Axes[i]
     IN  TowardsAxis(dot[a], dir[a], aabbMin[a], aabbMax[a]) \/ DyZero(dir[a])

\* part_000:110-112  the mirrored dir will not move towards the box
MirrorMovesAway(dot, dir, aabbMin, aabbMax) ==
  \E i \in 1..Len(Axes) :
     LET a == Axes[i]
     IN  TowardsAxis(dot[a], dir[a], aabbMin[a], aabbMax[a])

HalfDir(dir) == [a \in {"x", "y", "z"} |-> DyHalf(dir[a])]

MirroredHalfDir(dir) == [a \in {"x", "y", "z"} |-> DyNeg(DyHalf(dir[a]))]

Moved(dot, dir) == [a \in {"x", "y", "z"} |-> DyAdd(dot[a], dir[a])]

\* part_000:98-119  the loop, from iteration i on; state holds dot and dir
\* (the test state = state has the record computed before the next call)
RECURSIVE BisectLoop(_, _, _, _)
BisectLoop(i, state, aabbMin, aabbMax) ==
  IF i >= Iterations THEN FALSE
  ELSE IF DotInBox(state.dot, aabbMin, aabbMax) THEN TRUE
  ELSE IF MovesTowards(state.dot, state.dir, aabbMin, aabbMax)
  THEN LET next == [dot |-> Moved(state.dot, HalfDir(state.dir)),
                    dir |-> HalfDir(state.dir)]
       IN  next = next /\ BisectLoop(i + 1, next, aabbMin, aabbMax)
  ELSE IF MirrorMovesAway(state.dot, state.dir, aabbMin, aabbMax) THEN FALSE
  ELSE IF i > 0
  THEN LET next == [dot |-> Moved(state.dot, MirroredHalfDir(state.dir)),
                    dir |-> MirroredHalfDir(state.dir)]
       IN  next = next /\ BisectLoop(i + 1, next, aabbMin, aabbMax)
  ELSE FALSE

\* part_000:90-119
lineSegmentIntersectsAABBIterative(p1, p2, aabbMin, aabbMax) ==
  IF PointInBox(p2, aabbMin, aabbMax) THEN TRUE
  ELSE BisectLoop(0, [dot |-> [a \in {"x", "y", "z"} |-> DyInt(p1[a])],
                      dir |-> [a \in {"x", "y", "z"} |->
                                 DyInt(p2[a] - p1[a])]],
                  aabbMin, aabbMax)

(***************************************************************************)
(* SpecIter: the iterative kernel of part_000 called once with every       *)
(* segment and every box of a bounded grid.                                *)
(***************************************************************************)
IterCoords == -1..MaxIterCoord

IterPoints == [x : IterCoords, y : IterCoords, z : 0..MaxIterDepth]

IterInit ==
  /\ gp1 \in IterPoints /\ gp2 \in IterPoints
  /\ gmin \in IterPoints /\ gmax \in IterPoints
  /\ \A i \in 1..Len(Axes) : gmin[Axes[i]] <= gmax[Axes[i]]
  /\ gcalled = FALSE /\ gres = FALSE
  /\ ServerIdle

CallIterative ==
  /\ ~gcalled
  /\ gcalled' = TRUE
  /\ gres' = lineSegmentIntersectsAABBIterative(gp1, gp2, gmin, gmax)
  /\ UNCHANGED <<gp1, gp2, gmin, gmax, checkpoints, nextCheckpointId, teams, nextTeamId, adminRequests, running,
                 player_teams, player_checkpoints, player_positions_history,
                 pending, received, recv, lapPhase, errors, players, sent, acks,
                 credited, journal, player_positions, current_lap_count,
                 part001Vars>>

IterNext == CallIterative

SpecIter == IterInit /\ [][IterNext]_vars

\* The longest side of the grid.  When the segment and the box share a point
\* they share one whose parameter is k/d with 1 <= d <= IterSpan (see
\* SegmentMeetsBox).
IterSpan == MaxIterCoord + 1

SharesPoint(p1, p2, aabbMin, aabbMax) ==
  \E d \in 1..IterSpan : \E k \in 0..d :
     \A i \in 1..Len(Axes) :
        LET a == Axes[i]
            c == d * p1[a] + k * (p2[a] - p1[a])
        IN  d * aabbMin[a] <= c /\ c <= d * aabbMax[a]

\* C28: the iterative kernel answers true for every segment one of whose
\* endpoints (p1 or p2) lies in the closed box, faces, edges and corners
\* included.
C28_EndpointInsideIsHit ==
  (gcalled /\ (PointInBox(gp1, gmin, gmax) \/ PointInBox(gp2, gmin, gmax)))
     => gres = TRUE

\* p1 lies on a face of the box, p2 outside, and the call answered true
C28_Witness ==
  /\ gcalled /\ gres = TRUE
  /\ PointInBox(gp1, gmin, gmax) /\ ~PointInBox(gp2, gmin, gmax)
  /\ gp1.x = gmax.x /\ gmin.x < gmax.x

\* C29: the iterative kernel answers true for every segment that passes
\* through the box while both endpoints are outside it.
C29_PassThroughIsHit ==
  (gcalled /\ ~PointInBox(gp1, gmin, gmax) /\ ~PointInBox(gp2, gmin, gmax)
           /\ SharesPoint(gp1, gp2, gmin, gmax))
     => gres = TRUE

\* C30: the iterative kernel answers false for every segment that shares no
\* point with the closed box.
C30_MissIsFalse ==
  (gcalled /\ ~SharesPoint(gp1, gp2, gmin, gmax)) => gres = FALSE

\* a diagonal segment whose own bounding box overlaps the box but that
\* passes beside it; the call answered false
C30_Witness ==
  /\ gcalled /\ gres = FALSE
  /\ ~SharesPoint(gp1, gp2, gmin, gmax)
  /\ gp1.x < gmin.x /\ gmax.x < gp2.x
  /\ gp1.y < gmin.y /\ gmax.y < gp2.y

(***************************************************************************)
(* SpecFailures: as SpecAsync, and any statement handed to sqlite3 may      *)
(* fail: its callback, when it has one, is then called with err set.       *)
(***************************************************************************)
\* server.js:218, 250-254, 340-344, 352  the JSON sent for each kind
Reply(kind) ==
  CASE kind = "invalid" -> [error |-> "Invalid JSON format"]
    [] kind = "failed" -> [error |-> "Failed to process data"]
    [] kind = "noTeam" ->
         [status |-> "success", UUID |-> "playerData.UUID",
          message |-> "Position data stored successfully (no team assigned)"]
    [] kind = "processed" ->
         [status |-> "success", UUID |-> "playerData.UUID",
          teamId |-> "teamId",
          message |-> "Position data stored and processed successfully"]

\* server.js:265-269, 300-303  the history read or the listing fails:
\* console.error and return
ReadFails ==
  \E t \in pending :
    /\ t.op \in {"getHistory", "listCheckpoints"}
    /\ Finish(t)
    /\ errors' = errors + 1
    /\ journal' = LoggedFailure(t.n)
    /\ UNCHANGED <<part001Vars, part000Vars, geomVars, running, nextTeamId, adminRequests, dbVars, received, recv, lapPhase, logVars,
                   credited>>

\* server.js:318-320  the collected-check fails: return
GetCollectedFails ==
  \E t \in pending :
    /\ t.op = "getCollected"
    /\ Finish(t)
    /\ journal' = LoggedFailure(t.n)
    /\ UNCHANGED <<part001Vars, part000Vars, geomVars, running, nextTeamId, adminRequests, dbVars, received, recv, lapPhase, errors,
                   logVars, credited>>

\* server.js:142-145, 110-113, 126-129, 164-167, 174-177, 190-193, 324-327
\* a statement of processCheckpointCrossing fails: callback(err), and the
\* handler's callback does console.error and returns
CrossingFails ==
  \E t \in pending :
    /\ t.op \in {"getIsStartFinish", "countCollected", "countTotal",
                 "updateTeam", "clearCollected", "insertCollected"}
    /\ Finish(t)
    /\ errors' = errors + 1
    /\ journal' = LoggedFailure(t.n)
    /\ UNCHANGED <<part001Vars, part000Vars, geomVars, running, nextTeamId, adminRequests, dbVars, received, recv, lapPhase, logVars,
                   credited>>

\* server.js:223-241, 272-291  a statement handed over without a callback
\* fails: its row is not written, nothing is logged or sent, and the
\* process ends
WriteFails ==
  \E t \in pending :
    /\ t.op \in {"storePosition", "updatePos"}
    /\ Crash
    /\ journal' = LoggedFailure(t.n)
    /\ UNCHANGED <<part001Vars, part000Vars, geomVars, nextTeamId,
                   adminRequests, checkpoints, nextCheckpointId, teams,
                   player_teams, player_checkpoints,
                   player_positions_history, received, recv,
                   lapPhase, errors, logVars, credited>>

\* server.js:244-256  the team lookup fails: the callback takes the branch
\* of a player without a team (err || !teamRow), answers 'success ... (no
\* team assigned)' and returns
GetTeamFails ==
  \E t \in pending :
    /\ t.op = "getTeam"
    /\ Finish(t)
    /\ acks' = [acks EXCEPT !["noTeam"] = @ + 1]
    /\ sent' = [sent EXCEPT ![t.n] = @ + 1]
    /\ journal' = IF journal.on
                  THEN [journal EXCEPT
                          !.entries[t.n].replies = @ \o <<"noTeam">>,
                          !.entries[t.n].failed = TRUE]
                  ELSE journal
    /\ UNCHANGED <<part001Vars, part000Vars, geomVars, running, nextTeamId,
                   adminRequests, checkpoints, nextCheckpointId, teams,
                   player_teams, player_checkpoints,
                   player_positions_history, received, recv,
                   lapPhase, errors, players, credited>>

FailuresNext ==
  \/ AsyncNext
  \/ WriteFails
  \/ GetTeamFails
  \/ ReadFails
  \/ GetCollectedFails
  \/ CrossingFails

\* as AsyncInit, with the journal kept
FailuresInit == AsyncState /\ journal = Journal(TRUE)

SpecFailures == FailuresInit /\ [][FailuresNext]_vars

\* SpecAsync with the journal kept
SpecJournal == FailuresInit /\ [][AsyncNext]_vars

\* C21: a sample one of whose persistence calls failed is never
\* acknowledged to its source as a success.
C21_FailureNeverAckedSuccess ==
  \A n \in 1..Len(journal.entries) :
     journal.entries[n].failed =>
        \A i \in 1..Len(journal.entries[n].replies) :
           LET reply == Reply(journal.entries[n].replies[i])
           IN  ~("status" \in DOMAIN reply /\ reply.status = "success")

\* C22: for every sample whose processing completed a lap and has ended, a
\* message sent back for that sample carries a lap-completed indicator (a field
\* lapCompleted of the JSON).
C22_LapCompletionAcknowledged ==
  \A n \in 1..Len(journal.entries) :
     (journal.entries[n].lapCompleted /\ \A t \in pending : t.n # n) =>
        \E i \in 1..Len(journal.entries[n].replies) :
           "lapCompleted" \in DOMAIN Reply(journal.entries[n].replies[i])

(***************************************************************************)
(* SpecAdmin: the checkpoint routes of part_000 (POST, PUT, DELETE) called *)
(* in any order on an empty catalog.  A request body is a record of        *)
(* JavaScript values; a field the request omits is Undefined.              *)
(***************************************************************************)
BodyFields ==
  {"name", "is_start_finish", "min_x", "min_y", "min_z", "max_x", "max_y",
   "max_z", "order_index"}

\* a start/finish checkpoint with corners (0,0,0) and (1,1,1)
FullBody ==
  [name |-> JsString("gate"), is_start_finish |-> JsNumber(1),
   min_x |-> JsNumber(0), min_y |-> JsNumber(0), min_z |-> JsNumber(0),
   max_x |-> JsNumber(1), max_y |-> JsNumber(1), max_z |-> JsNumber(1),
   order_index |-> JsNumber(1)]

\* the same with the corners of the x axis inverted
InvertedBody == [FullBody EXCEPT !.min_x = JsNumber(2), !.max_x = JsNumber(0)]

Omit(body, field) == [body EXCEPT ![field] = Undefined]

AdminBodies ==
  {FullBody, InvertedBody}
    \cup {Omit(FullBody, f) :
            f \in {"name", "is_start_finish", "min_x", "max_z", "order_index"}}

\* part_000:130-136
min(val1, val2) == IF val1 < val2 THEN val1 ELSE val2

max(val1, val2) == IF val1 > val2 THEN val1 ELSE val2

\* v || 0 for a number or an omitted field
OrZero(v) == IF Truthy(v) THEN v.number ELSE 0

\* part_000:535-539  the test of POST, negated
PostAccepts(body) ==
  /\ Truthy(body.name)
  /\ \A f \in {"min_x", "min_y", "min_z", "max_x", "max_y", "max_z"} :
        body[f] # Undefined

\* part_000:541-544  the row POST inserts
PostRow(id, body) ==
  [id |-> id, name |-> body.name.string,
   is_start_finish |-> OrZero(body.is_start_finish),
   min |-> Point(min(body.min_x.number, body.max_x.number + 1),
                 min(body.min_y.number, body.max_y.number + 1),
                 min(body.min_z.number, body.max_z.number + 1)),
   max |-> Point(max(body.min_x.number, body.max_x.number + 1),
                 max(body.min_y.number, body.max_y.number + 1),
                 max(body.min_z.number, body.max_z.number + 1)),
   order_index |-> OrZero(body.order_index)]

\* part_000:562-566  the test of PUT, negated
PutAccepts(body) == PostAccepts(body) /\ body.order_index # Undefined

\* part_000:568-570  the row PUT writes
PutRow(id, body) ==
  [id |-> id, name |-> body.name.string,
   is_start_finish |-> OrZero(body.is_start_finish),
   min |-> Point(body.min_x.number, body.min_y.number, body.min_z.number),
   max |-> Point(body.max_x.number + 1, body.max_y.number + 1,
                 body.max_z.number + 1),
   order_index |-> body.order_index.number]

\* part_000:532-556  POST /api/checkpoints
PostCheckpoint(body) ==
  /\ running
  /\ nextCheckpointId <= MaxCheckpoints
  /\ IF PostAccepts(body)
     THEN /\ checkpoints' = checkpoints \cup {PostRow(nextCheckpointId, body)}
          /\ nextCheckpointId' = nextCheckpointId + 1
     ELSE UNCHANGED <<checkpoints, nextCheckpointId>>
  /\ UNCHANGED <<part001Vars, part000Vars, geomVars, running, nextTeamId, adminRequests, teams, player_teams, player_checkpoints,
                 player_positions_history, pending, received, recv, lapPhase,
                 errors, logVars, credited, journal>>

\* part_000:558-581  PUT /api/checkpoints/:id
PutCheckpoint(id, body) ==
  /\ running
  /\ IF PutAccepts(body)
     THEN checkpoints' = {IF c.id = id THEN PutRow(id, body) ELSE c :
                            c \in checkpoints}
     ELSE UNCHANGED checkpoints
  /\ UNCHANGED <<part001Vars, part000Vars, geomVars, running, nextTeamId, adminRequests, nextCheckpointId, teams, player_teams,
                 player_checkpoints, player_positions_history, pending,
                 received, recv, lapPhase, errors, logVars, credited, journal>>

AdminInit == GeomIdle /\ ServerIdle

AdminNext ==
  \/ \E body \in AdminBodies : PostCheckpoint(body)
  \/ \E id \in 1..MaxCheckpoints : \E body \in AdminBodies :
        PutCheckpoint(id, body)
  \/ \E id \in 1..MaxCheckpoints : DeleteCheckpoint(id)

SpecAdmin == AdminInit /\ [][AdminNext]_vars

\* C23: every checkpoint of the catalog has min <= max on each axis, after
\* any sequence of creations and updates, inverted corners included.
C23_CornersOrdered ==
  \A c \in checkpoints :
     \A i \in 1..Len(Axes) : c.min[Axes[i]] <= c.max[Axes[i]]

\* C24: an update whose body omits a field of the checkpoint record leaves
\* the catalog unchanged.
C24_UpdateIsFullReplace ==
  [][\A id \in 1..MaxCheckpoints : \A body \in AdminBodies :
       ((\E f \in BodyFields : body[f] = Undefined)
          /\ PutCheckpoint(id, body)) => checkpoints' = checkpoints]_vars

\* C25: when the crossing of a checkpoint is processed after the checkpoint
\* was deleted (it was in the catalog at the listing), nothing is collected,
\* no lap counter changes and nothing further is run for that crossing.
C25_DeletedCheckpointCrossingIsNoOp ==
  [][\A t \in pending :
       (/\ t.op = "getIsStartFinish"
        /\ t \notin pending'
        /\ ~\E c \in checkpoints : c.id = t.checkpointId)
       => /\ player_checkpoints' = player_checkpoints
          /\ teams' = teams
          /\ credited' = credited
          /\ pending' = pending \ {t}]_vars

\* both checkpoints were deleted after the listing of the first message, the
\* two crossings were processed and changed nothing, and the second
\* message has been processed and answered
C25_Witness ==
  /\ errors = 2 /\ pending = {} /\ received = 2
  /\ sent = <<1, 1>> /\ acks["processed"] = 2
  /\ player_checkpoints = {}
  /\ teams[1].lap_count = InitialLaps

(***************************************************************************)
(* Spec000: the message handler of part_000.  It stores every sample in    *)
(* player_positions, reads the previous position back from that table      *)
(* ordered by timestamp, tests the crossings with the iterative kernel and *)
(* credits a lap to the player.  The statements of                         *)
(* processCheckpointCrossing other than the lap UPDATE are those of        *)
(* server.js.  A message arrives when no statement is pending.             *)
(***************************************************************************)
Timestamps == 1..MaxSamples

Telemetry000(uuid, position, timestamp) ==
  [Telemetry(uuid, position) EXCEPT !.timestamp = JsNumber(timestamp)]

\* part_000:243-276  JSON.parse and the validation; the INSERT INTO
\* player_positions and the team lookup are handed to sqlite3, which runs
\* them, and the history read, in any order
Receive000(data) ==
  /\ running
  /\ received < MaxSamples
  /\ received' = received + 1
  /\ IF data = NotJson
     THEN /\ sent' = Append(sent, 1)
          /\ acks' = [acks EXCEPT !["failed"] = @ + 1]
          /\ journal' = Logged(Entry(<<"failed">>))
          /\ UNCHANGED <<player_positions, recv, pending>>
     ELSE IF ~ValidJsonFormat(data)
     THEN /\ sent' = Append(sent, 1)
          /\ acks' = [acks EXCEPT !["invalid"] = @ + 1]
          /\ journal' = Logged(Entry(<<"invalid">>))
          /\ UNCHANGED <<player_positions, recv, pending>>
     ELSE LET uuid == data.UUID.string
              position == data.position.object
          IN  /\ player_positions' = player_positions
              /\ recv' = [recv EXCEPT ![uuid] = Last2(Append(@, position))]
              /\ pending' = pending \cup
                   {[op |-> "storePosition", n |-> received + 1,
                     UUID |-> uuid, playerData |-> data],
                    [op |-> "getTeam", n |-> received + 1, UUID |-> uuid,
                     position |-> position, playerData |-> data]}
              /\ sent' = Append(sent, 0)
              /\ journal' = Logged(Entry(<<>>))
              /\ acks' = acks
  /\ UNCHANGED <<part001Vars, geomVars, running, nextTeamId, adminRequests, dbVars, lapPhase, errors, players, credited,
                 current_lap_count>>

\* part_000:255-273  sqlite3 runs the INSERT INTO player_positions, whose
\* columns are NOT NULL (part_000:21-34); stmt.run has no callback
StorePosition000 ==
  \E t \in pending :
    /\ t.op = "storePosition"
    /\ IF Storable(t.playerData)
       THEN /\ player_positions' =
                 [player_positions EXCEPT ![t.UUID] =
                    Append(@, [timestamp |-> t.playerData.timestamp.number,
                               position |-> t.playerData.position.object])]
            /\ Finish(t)
            /\ UNCHANGED running
       ELSE /\ player_positions' = player_positions
            /\ Crash
    /\ UNCHANGED <<part001Vars, geomVars, nextTeamId, adminRequests, dbVars,
                   received, recv, lapPhase,
                   errors, logVars, credited, journal, current_lap_count>>

\* part_000:293-298  ORDER BY timestamp DESC LIMIT 2: rows[i] is returned
\* first and rows[j] second; rows of equal timestamp come in either order
Top2(rows, i, j) ==
  /\ i # j
  /\ rows[i].timestamp >= rows[j].timestamp
  /\ \A k \in (1..Len(rows)) \ {i, j} : rows[j].timestamp >= rows[k].timestamp

\* part_000:299-317  callback of the history read: with fewer than two rows
\* it returns, otherwise prevPos is the second row and the checkpoint
\* listing is handed to sqlite3
GetHistory000 ==
  \E t \in pending :
    /\ t.op = "getHistory"
    /\ LET posRows == player_positions[t.UUID]
       IN  IF Len(posRows) < 2
           THEN Finish(t)
           ELSE \E i \in 1..Len(posRows) : \E j \in 1..Len(posRows) :
                  /\ Top2(posRows, i, j)
                  /\ Continue(t, {[op |-> "listCheckpoints", n |-> t.n,
                                   UUID |-> t.UUID, teamId |-> t.teamId,
                                   prevPos |-> posRows[j].position,
                                   currPos |-> t.position]})
    /\ UNCHANGED <<part001Vars, part000Vars, geomVars, running, nextTeamId, adminRequests, dbVars, received, recv, lapPhase,
                   errors, logVars, credited, journal>>

\* part_000:323-327  the checkpoints of the listing the segment intersects
Crossed000(rows, prevPos, currPos) ==
  {c \in rows :
     lineSegmentIntersectsAABBIterative(prevPos, currPos, c.min, c.max)}

\* part_000:317-335  callback of the listing
ListCheckpoints000 ==
  \E t \in pending :
    /\ t.op = "listCheckpoints"
    /\ Continue(t, {[op |-> "getCollected", n |-> t.n, UUID |-> t.UUID,
                     teamId |-> t.teamId, checkpointId |-> c.id,
                     version |-> CatalogVersion] :
                    c \in Crossed000(checkpoints, t.prevPos, t.currPos)})
    /\ UNCHANGED <<part001Vars, part000Vars, geomVars, running, nextTeamId, adminRequests, dbVars, received, recv, lapPhase,
                   errors, logVars, credited, journal>>

\* part_000:193-203  UPDATE players SET current_lap_count =
\* current_lap_count + 1, then the DELETE is handed to sqlite3
UpdatePlayer ==
  \E t \in pending :
    /\ t.op = "updateTeam"
    /\ current_lap_count' = [current_lap_count EXCEPT ![t.UUID] = @ + 1]
    /\ Continue(t, {[op |-> "clearCollected", n |-> t.n, UUID |-> t.UUID,
                     checkpointId |-> t.checkpointId]})
    /\ lapPhase' = [lapPhase EXCEPT ![t.UUID] = "credited"]
    /\ credited' = [credited EXCEPT ![t.UUID] = @ + 1]
    /\ journal' = LoggedLap(t.n)
    /\ UNCHANGED <<part001Vars, geomVars, running, nextTeamId, adminRequests, dbVars, player_positions, received, recv,
                   errors, logVars>>

\* both players are in the active team 1 and have reported PosA once, with
\* timestamp 2; the catalog holds a regular and a start/finish checkpoint
Init000 ==
  /\ GeomIdle
  /\ checkpoints = {CheckpointRow(1, RegularRequest),
                    CheckpointRow(2, StartFinishRequest)}
  /\ nextCheckpointId = 3
  /\ teams = [id \in TeamIds |-> [lap_count |-> 0, is_active |-> 1]]
  /\ nextTeamId = Cardinality(TeamIds) + 1
  /\ adminRequests = 0
  /\ running = TRUE
  /\ player_teams = [uuid \in Players |-> 1]
  /\ player_checkpoints = {}
  /\ player_positions_history = [uuid \in Players |-> NoRow]
  /\ pending = {}
  /\ received = 0
  /\ recv = [uuid \in Players |-> <<PosA>>]
  /\ lapPhase = [uuid \in Players |-> "collecting"]
  /\ errors = 0
  /\ players = [uuid \in Players |-> 0]
  /\ sent = <<>>
  /\ acks = [k \in AckKinds |-> 0]
  /\ credited = [uuid \in Players |-> 0]
  /\ journal = Journal(FALSE)
  /\ player_positions =
       [uuid \in Players |-> <<[timestamp |-> 2, position |-> PosA]>>]
  /\ current_lap_count = [uuid \in Players |-> 0]
  /\ SyncIdle

Next000 ==
  \/ Idle /\ \E uuid \in Players : \E position \in Positions :
               \E timestamp \in Timestamps :
                 Receive000(Telemetry000(uuid, position, timestamp))
  \/ StorePosition000
  \/ GetTeam
  \/ GetHistory000
  \/ ListCheckpoints000
  \/ GetCollected
  \/ GetIsStartFinish
  \/ CountCollected
  \/ CountTotal
  \/ UpdatePlayer
  \/ ClearCollected
  \/ InsertCollected

Spec000 == Init000 /\ [][Next000]_vars

\* C27: in the handler of part_000 the previous position of the segment
\* tested for a sample is the position of the sample of that player that
\* arrived immediately before it, whatever the timestamps.
C27_SegmentFollowsArrivalOrder ==
  \A t \in pending :
     t.op = "listCheckpoints" =>
        /\ Len(recv[t.UUID]) = 2
        /\ t.prevPos = recv[t.UUID][1]
        /\ t.currPos = recv[t.UUID][2]

\* C26: no step of the telemetry processing lowers a lap counter (lap_count
\* of a team, current_lap_count of a player); a step that completes a lap
\* raises exactly one of them, by exactly 1, and no other step changes one.
C26_LapCountersStepByOne ==
  [][/\ \A id \in TeamIds :
          teams'[id].lap_count \in
             {teams[id].lap_count, teams[id].lap_count + 1}
     /\ \A uuid \in Players :
          current_lap_count'[uuid] \in
             {current_lap_count[uuid], current_lap_count[uuid] + 1}
     /\ Cardinality({id \in TeamIds :
                       teams'[id].lap_count # teams[id].lap_count})
          + Cardinality({uuid \in Players :
                           current_lap_count'[uuid] # current_lap_count[uuid]})
          = (IF credited' # credited THEN 1 ELSE 0)]_vars

\* p1 alone has completed a lap, which raised the count of team 1 by one
C26_Witness ==
  /\ pending = {}
  /\ credited["p1"] = 1 /\ credited["p2"] = 0
  /\ teams[1].lap_count = InitialLaps + 1
  /\ teams[2].lap_count = 0

\* the same in part_000: p1 has completed a lap, which raised its own
\* current_lap_count and no count of a team
Lap000Reached ==
  /\ pending = {} /\ credited["p1"] = 1
  /\ current_lap_count["p1"] = 1 /\ current_lap_count["p2"] = 0
  /\ \A id \in TeamIds : teams[id].lap_count = 0

(***************************************************************************)
(* SpecPlane: the iterative kernel on the segments and boxes of the plane  *)
(* x = 0, with y in -1..MaxPlaneCoord and z in 0..MaxIterDepth.            *)
(***************************************************************************)
PlanePoints == [x : {0}, y : -1..MaxPlaneCoord, z : 0..MaxIterDepth]

PlaneInit ==
  /\ gp1 \in PlanePoints /\ gp2 \in PlanePoints
  /\ gmin \in PlanePoints /\ gmax \in PlanePoints
  /\ \A i \in 1..Len(Axes) : gmin[Axes[i]] <= gmax[Axes[i]]
  /\ gcalled = FALSE /\ gres = FALSE
  /\ ServerIdle

SpecPlane == PlaneInit /\ [][IterNext]_vars

\* C35: the iterative kernel gives the same answer for a segment and for
\* the segment taken in the other direction.
C35_KernelSymmetric ==
  gcalled => gres = lineSegmentIntersectsAABBIterative(gp2, gp1, gmin, gmax)

(***************************************************************************)
(* SpecCorners: POST /api/checkpoints of part_000 on an empty catalog, for *)
(* every pair of corners.  gp1 and gp2 are the two corners the requests    *)
(* of a behaviour carry, as min and max or as max and min.                 *)
(***************************************************************************)
CornerBody(p, q) ==
  [FullBody EXCEPT !.min_x = JsNumber(p.x), !.min_y = JsNumber(p.y),
                   !.min_z = JsNumber(p.z), !.max_x = JsNumber(q.x),
                   !.max_y = JsNumber(q.y), !.max_z = JsNumber(q.z)]

CornersInit ==
  /\ gp1 \in Points /\ gp2 \in Points
  /\ gmin = Point(0, 0, 0) /\ gmax = Point(0, 0, 0)
  /\ gcalled = FALSE /\ gres = FALSE
  /\ ServerIdle

\* part_000:532-556  the route is called with the corners in either order
CornersNext ==
  \E body \in {CornerBody(gp1, gp2), CornerBody(gp2, gp1)} :
     PostCheckpoint(body)

SpecCorners == CornersInit /\ [][CornersNext]_vars

\* C34: the rows the POST of part_000 inserts for two corners hold the same
\* interval on every axis, whichever of the two corners the request gave as
\* min and whichever as max.
C34_CornerOrderIrrelevant ==
  \A c \in checkpoints : \A d \in checkpoints :
     c.min = d.min /\ c.max = d.max

\* C31: with a regular checkpoint in the catalog, a step credits a lap to a
\* player only if the player has collected every regular checkpoint since
\* the last lap credited to it, also when the callbacks of two of its
\* samples interleave.
C31_OneLapPerCollection ==
  [][\A uuid \in Players :
       credited'[uuid] > credited[uuid] =>
          (lapPhase[uuid] = "collecting" \/ RegularIds = {})]_vars

\* the players whose message a step receives or whose statement it completes
Acting ==
  {t.UUID : t \in (pending \ pending') \cup (pending' \ pending)}

\* C32: a step of the processing of a message of one player leaves the
\* collected checkpoints and the trajectory window of every other player
\* unchanged.
C32_OtherPlayerUntouched ==
  [][\A a \in Acting : \A b \in Players \ {a} :
        /\ Collected(b)' = Collected(b)
        /\ player_positions_history'[b] = player_positions_history[b]]_vars

\* a lap of p1 cleared its collected checkpoints while p2, whose window its
\* own message has advanced, holds a collected checkpoint
C32_Witness ==
  /\ lapPhase["p1"] = "cleared"
  /\ Collected("p1") = {}
  /\ Collected("p2") # {}
  /\ player_positions_history["p2"].curr = PosB

\* C33: a player whose lap was credited and whose collected checkpoints
\* were not cleared since has the DELETE of that lap still to run: the
\* processing of a start/finish crossing never ends, with or without a
\* failed statement, with the lap counted and the collected set kept.
C33_CreditAndClearTogether ==
  \A uuid \in Players :
     lapPhase[uuid] = "credited" =>
        \E t \in pending : t.op = "clearCollected" /\ t.UUID = uuid

(***************************************************************************)
(* part_000: the assignment of a player to a team.                         *)
(***************************************************************************)
PlayerTeamBodies ==
  [player_uuid : {JsString(uuid) : uuid \in Players},
   team_id : {JsNumber(id) : id \in 0..MaxTeams},
   name : {JsString("driver"), Undefined}]

\* part_000:610-613  the test of the route, negated
PlayerTeamAccepts(body) ==
  Truthy(body.player_uuid) /\ Truthy(body.team_id) /\ Truthy(body.name)

\* part_000:607-629  POST /api/player-team: INSERT OR REPLACE INTO players
\* (player_uuid, team_id, name) replaces the row of the player by a new row,
\* whose current_lap_count is the DEFAULT 0 of the table (part_000:58-66);
\* the rows of player_checkpoints stay (no foreign key is enforced)
PostPlayerTeam(body) ==
  /\ running
  /\ adminRequests < MaxAdminRequests
  /\ adminRequests' = adminRequests + 1
  /\ IF PlayerTeamAccepts(body)
     THEN /\ player_teams' =
               [player_teams EXCEPT ![body.player_uuid.string] =
                                       body.team_id.number]
          /\ current_lap_count' =
               [current_lap_count EXCEPT ![body.player_uuid.string] = 0]
     ELSE UNCHANGED <<player_teams, current_lap_count>>
  /\ UNCHANGED <<part001Vars, player_positions, geomVars, running, nextTeamId,
                 checkpoints, nextCheckpointId,
                 teams, player_checkpoints, player_positions_history, pending,
                 received, recv, lapPhase, errors, logVars, credited, journal>>

\* part_000:470-517  POST /api/teams and DELETE /api/teams/:id are the
\* routes of server.js; the team lookup of the handler joins teams, so the
\* player of a deleted team has no team
RosterNext ==
  \/ Next000
  \/ Idle /\ \E body \in PlayerTeamBodies : PostPlayerTeam(body)
  \/ Idle /\ \E body \in TeamRequests : CreateTeam(body)
  \/ Idle /\ \E teamId \in 1..MaxTeams : DeleteTeam(teamId)

SpecRoster == Init000 /\ [][RosterNext]_vars

\* C36: a step that moves a player to another team leaves the
\* current_lap_count and the collected checkpoints of the player unchanged.
C36_ReassignKeepsProgress ==
  [][\A uuid \in Players :
        player_teams'[uuid] # player_teams[uuid] =>
           /\ current_lap_count'[uuid] = current_lap_count[uuid]
           /\ Collected(uuid)' = Collected(uuid)]_vars

(***************************************************************************)
(* part_001: the synchronisation of the laps of a player.                  *)
(***************************************************************************)
Nicknames == {"a", "b"}

\* typeof v === 'number'
IsNumber(v) == "number" \in DOMAIN v

\* the timestamps of the messages
SyncTimestamps == {1, 2}

\* the message a client sends (part_001:155)
Sync(nickname, lap_count, timestamp) ==
  [nickname |-> JsString(nickname), lap_count |-> JsNumber(lap_count),
   timestamp |-> JsNumber(timestamp), is_start |-> JsBoolean(FALSE)]

\* messages the validation rejects
InvalidSync ==
  { [Sync("a", 1, 1) EXCEPT !.nickname = Undefined],
    [Sync("a", 1, 1) EXCEPT !.lap_count = JsString("1")],
    [Sync("a", 1, 1) EXCEPT !.timestamp = JsNumber(0)],
    [Sync("a", 1, 1) EXCEPT !.is_start = Null] }

SyncMessages ==
  {Sync(nickname, lap_count, timestamp) :
     nickname \in Nicknames, lap_count \in 0..MaxTarget,
     timestamp \in SyncTimestamps}
    \cup InvalidSync \cup {NotJson}

\* part_001:156-158  the test of the handler, negated
ValidSync(playerData) ==
  /\ Truthy(playerData.nickname)
  /\ playerData.lap_count \notin {Undefined, Null}
  /\ IsNumber(playerData.lap_count)
  /\ Truthy(playerData.timestamp)
  /\ playerData.is_start \notin {Undefined, Null}

Answer(kind) == answered' = [answered EXCEPT ![kind] = @ + 1]

\* the rows of laps of a player
LapsOf(playerUuid) == {r \in laps : r.player_uuid = playerUuid}

\* part_001:152-197  a message arrives: the SELECT of the player by its
\* nickname is handed to sqlite3
ReceiveSync(data) ==
  /\ received' = received + 1
  /\ IF data = NotJson
     THEN Answer("failed") /\ UNCHANGED pending
     ELSE IF ~ValidSync(data)
     THEN Answer("invalid") /\ UNCHANGED pending
     ELSE /\ pending' = pending \cup
               {[op |-> "selectPlayer", n |-> received + 1,
                 nickname |-> data.nickname.string,
                 lap_count |-> data.lap_count.number,
                 timestamp |-> data.timestamp.number,
                 is_start |-> data.is_start.boolean]}
          /\ UNCHANGED answered
  /\ UNCHANGED <<playerRows, laps, nextLapId, part000Vars, geomVars, running, nextTeamId, adminRequests, dbVars,
                 recv, lapPhase, errors, logVars, credited, journal>>

\* the statements of syncLapCount for the message of a task
SyncTask(t, op, playerUuid) ==
  [op |-> op, n |-> t.n, UUID |-> playerUuid, nickname |-> t.nickname,
   lap_count |-> t.lap_count, timestamp |-> t.timestamp,
   is_start |-> t.is_start]

\* part_001:163-193  callback of SELECT player_uuid FROM players WHERE
\* name = ?: db.get gives one of the rows with the name, which SQL leaves
\* open without ORDER BY; without a row the INSERT is handed to sqlite3
SelectPlayer ==
  \E t \in pending :
    /\ t.op = "selectPlayer"
    /\ LET rows == {r \in playerRows : r.name = t.nickname}
       IN  IF rows = {}
           THEN Continue(t, {SyncTask(t, "insertPlayer", 0)})
           ELSE \E row \in rows :
                  Continue(t, {SyncTask(t, "countLaps", row.player_uuid)})
    /\ UNCHANGED <<part001Vars, part000Vars, geomVars, running, nextTeamId, adminRequests, dbVars, received, recv,
                   lapPhase, errors, logVars, credited, journal>>

\* the player_uuid values of the rows of players and laps and of the
\* statements in flight
UsedUuids ==
  {r.player_uuid : r \in playerRows} \cup {r.player_uuid : r \in laps}
    \cup {t.UUID : t \in {u \in pending : "UUID" \in DOMAIN u}}

\* part_001:174  'player_' + Date.now() + '_' + Math.random()...: a value
\* that is nowhere yet
newPlayerUuid ==
  CHOOSE u \in 1..(Cardinality(UsedUuids) + 1) :
    u \notin UsedUuids /\ \A v \in 1..(u - 1) : v \in UsedUuids

\* part_001:175-188  INSERT INTO players (player_uuid, name, team_id)
\* VALUES (?, ?, 0), then syncLapCount
InsertPlayer ==
  \E t \in pending :
    /\ t.op = "insertPlayer"
    /\ playerRows' = playerRows \cup
                       {[player_uuid |-> newPlayerUuid, name |-> t.nickname,
                         team_id |-> 0]}
    /\ Continue(t, {SyncTask(t, "countLaps", newPlayerUuid)})
    /\ UNCHANGED <<laps, nextLapId, answered, part000Vars, geomVars, running, nextTeamId, adminRequests, dbVars,
                   received, recv, lapPhase, errors, logVars, credited,
                   journal>>

\* the mutation of lapsToRemove: every lap
lapsToRemoveAll(currentLapCount, targetLapCount) == currentLapCount

\* part_001:68, 101
lapsToAdd(currentLapCount, targetLapCount) ==
  targetLapCount - currentLapCount

lapsToRemove(currentLapCount, targetLapCount) ==
  currentLapCount - targetLapCount

\* part_001:51-139  callback of SELECT COUNT(*) FROM laps WHERE
\* player_uuid = ?: the INSERTs or the DELETE are handed to sqlite3
CountLaps ==
  \E t \in pending :
    /\ t.op = "countLaps"
    /\ LET currentLapCount == Cardinality(LapsOf(t.UUID))
           targetLapCount == t.lap_count
       IN  IF currentLapCount < targetLapCount
           THEN /\ Continue(t,
                     {[SyncTask(t, "insertLap", t.UUID) EXCEPT
                         !.timestamp = t.timestamp + i] :
                        i \in 0..(lapsToAdd(currentLapCount,
                                            targetLapCount) - 1)})
                /\ UNCHANGED answered
           ELSE IF currentLapCount > targetLapCount
           THEN /\ Continue(t,
                     {[op |-> "deleteLaps", n |-> t.n, UUID |-> t.UUID,
                       lap_count |-> t.lap_count,
                       limit |-> lapsToRemove(currentLapCount,
                                              targetLapCount)]})
                /\ UNCHANGED answered
           ELSE Finish(t) /\ Answer("correct")
    /\ UNCHANGED <<playerRows, laps, nextLapId, part000Vars, geomVars, running, nextTeamId, adminRequests, dbVars,
                   received, recv, lapPhase, errors, logVars, credited,
                   journal>>

\* part_001:74-96  one INSERT INTO laps (player_uuid, timestamp, is_start);
\* the message 'Added ...' is sent when the last of them has run
InsertLap ==
  \E t \in pending :
    /\ t.op = "insertLap"
    /\ laps' = laps \cup {[id |-> nextLapId, player_uuid |-> t.UUID,
                           timestamp |-> t.timestamp,
                           is_start |-> t.is_start]}
    /\ nextLapId' = nextLapId + 1
    /\ Finish(t)
    /\ IF \E u \in pending \ {t} : u.op = "insertLap" /\ u.n = t.n
       THEN UNCHANGED answered
       ELSE Answer("added")
    /\ UNCHANGED <<playerRows, part000Vars, geomVars, running, nextTeamId, adminRequests, dbVars, received, recv,
                   lapPhase, errors, logVars, credited, journal>>

\* the sets of limit rows (all rows when there are fewer) that ORDER BY
\* timestamp DESC LIMIT ? can give: no row left out is newer than a row of
\* the set
NewestLaps(rows, limit) ==
  {D \in SUBSET rows :
     /\ Cardinality(D) = min(limit, Cardinality(rows))
     /\ \A d \in D : \A r \in rows \ D : d.timestamp >= r.timestamp}

\* part_001:106-126  DELETE FROM laps WHERE player_uuid = ? AND id IN
\* (SELECT id ... ORDER BY timestamp DESC LIMIT ?)
DeleteLaps ==
  \E t \in pending :
    /\ t.op = "deleteLaps"
    /\ \E D \in NewestLaps(LapsOf(t.UUID), t.limit) : laps' = laps \ D
    /\ Finish(t)
    /\ Answer("removed")
    /\ UNCHANGED <<playerRows, nextLapId, part000Vars, geomVars, running, nextTeamId, adminRequests, dbVars,
                   received, recv, lapPhase, errors, logVars, credited,
                   journal>>

\* MAX(timestamp) of a set of rows that is not empty
MaxTimestamp(rows) ==
  CHOOSE m \in {r.timestamp : r \in rows} :
    \A r \in rows : r.timestamp <= m

\* part_001:333-360  DELETE /api/players/:id/lap: DELETE FROM laps WHERE
\* player_uuid = ? AND timestamp = (SELECT MAX(timestamp) FROM laps WHERE
\* player_uuid = ?), 404 when no row was deleted
DeleteLastLap(player_UUID) ==
  /\ answered["404"] + answered["deleted"] < MaxLapRequests
  /\ LET rows == LapsOf(player_UUID)
     IN  IF rows = {}
         THEN Answer("404") /\ UNCHANGED laps
         ELSE /\ laps' = laps \ {r \in rows :
                                    r.timestamp = MaxTimestamp(rows)}
              /\ Answer("deleted")
  /\ UNCHANGED <<playerRows, nextLapId, part000Vars, geomVars, running, nextTeamId, adminRequests, dbVars,
                 pending, received, recv, lapPhase, errors, logVars,
                 credited, journal>>

\* the player_uuid of the requests: of the players there can be
PlayerUuids == 1..Cardinality(Nicknames)

\* part_001:363-365  what Date.now() gives, among the timestamps of the
\* messages
DateNow == SyncTimestamps

\* part_001:363-382  POST /api/players/:id/laps: INSERT INTO laps
\* (player_uuid, timestamp), is_start the DEFAULT 0; the player need not
\* exist
PostLap(player_UUID) ==
  /\ adminRequests < MaxAdminRequests
  /\ adminRequests' = adminRequests + 1
  /\ \E timestamp \in DateNow :
       laps' = laps \cup {[id |-> nextLapId, player_uuid |-> player_UUID,
                           timestamp |-> timestamp, is_start |-> FALSE]}
  /\ nextLapId' = nextLapId + 1
  /\ UNCHANGED <<playerRows, answered, part000Vars, geomVars, running,
                 nextTeamId, dbVars, pending, received, recv, lapPhase,
                 errors, logVars, credited, journal>>

\* INSERT OR REPLACE INTO players: player_uuid is the PRIMARY KEY, the row
\* of the player, when there is one, is replaced
ReplacePlayer(player_UUID, name, team_id) ==
  {r \in playerRows : r.player_uuid # player_UUID}
    \cup {[player_uuid |-> player_UUID, name |-> name, team_id |-> team_id]}

\* bodies of PUT /api/players/:id
PlayerBodies ==
  [name : {JsString(nickname) : nickname \in Nicknames},
   team_id : {JsNumber(1), Undefined}]

\* part_001:261-289  PUT /api/players/:id: 400 without a name or a
\* team_id, otherwise INSERT OR REPLACE INTO players
PutPlayer(player_UUID, body) ==
  /\ adminRequests < MaxAdminRequests
  /\ adminRequests' = adminRequests + 1
  /\ IF Truthy(body.name) /\ Truthy(body.team_id)
     THEN playerRows' = ReplacePlayer(player_UUID, body.name.string,
                                      body.team_id.number)
     ELSE UNCHANGED playerRows
  /\ UNCHANGED <<laps, nextLapId, answered, part000Vars, geomVars, running,
                 nextTeamId, dbVars, pending, received, recv, lapPhase,
                 errors, logVars, credited, journal>>

\* bodies of POST /api/player-team of part_001; the number stands for the
\* text of the player_uuid
SyncPlayerTeamBodies ==
  [player_uuid : {JsNumber(player_UUID) : player_UUID \in PlayerUuids},
   team_id : {JsNumber(1)},
   name : {JsString("b"), Undefined}]

\* part_001:528-550  POST /api/player-team: 400 without a player_uuid, a
\* team_id or a name, otherwise INSERT OR REPLACE INTO players
SyncPostPlayerTeam(body) ==
  /\ adminRequests < MaxAdminRequests
  /\ adminRequests' = adminRequests + 1
  /\ IF Truthy(body.player_uuid) /\ Truthy(body.team_id) /\ Truthy(body.name)
     THEN playerRows' = ReplacePlayer(body.player_uuid.number,
                                      body.name.string, body.team_id.number)
     ELSE UNCHANGED playerRows
  /\ UNCHANGED <<laps, nextLapId, answered, part000Vars, geomVars, running,
                 nextTeamId, dbVars, pending, received, recv, lapPhase,
                 errors, logVars, credited, journal>>

\* part_001:292-313  DELETE /api/players/:id: DELETE FROM players WHERE
\* player_uuid = ?, 404 when no row was deleted; the rows of laps stay
DeletePlayer(player_UUID) ==
  /\ adminRequests < MaxAdminRequests
  /\ adminRequests' = adminRequests + 1
  /\ playerRows' = {r \in playerRows : r.player_uuid # player_UUID}
  /\ UNCHANGED <<laps, nextLapId, answered, part000Vars, geomVars, running,
                 nextTeamId, dbVars, pending, received, recv, lapPhase,
                 errors, logVars, credited, journal>>

\* the routes of part_001 that write players and laps, besides
\* DELETE /api/players/:id/lap
PlayerAdmin ==
  \/ \E player_UUID \in PlayerUuids : PostLap(player_UUID)
  \/ \E player_UUID \in PlayerUuids : \E body \in PlayerBodies :
       PutPlayer(player_UUID, body)
  \/ \E body \in SyncPlayerTeamBodies : SyncPostPlayerTeam(body)
  \/ \E player_UUID \in PlayerUuids : DeletePlayer(player_UUID)

SyncInit == GeomIdle /\ ServerIdle

\* messages and requests arrive one after another
SyncNext ==
  \/ Idle /\ received < MaxSync /\ \E data \in SyncMessages : ReceiveSync(data)
  \/ SelectPlayer
  \/ InsertPlayer
  \/ CountLaps
  \/ InsertLap
  \/ DeleteLaps
  \/ Idle /\ \E player_UUID \in PlayerUuids : DeleteLastLap(player_UUID)
  \/ Idle /\ PlayerAdmin

SpecSync == SyncInit /\ [][SyncNext]_vars

\* messages arrive while the statements of earlier ones are in flight
SyncAsyncNext ==
  \/ received < MaxOverlap /\ \E data \in SyncMessages : ReceiveSync(data)
  \/ SelectPlayer
  \/ InsertPlayer
  \/ CountLaps
  \/ InsertLap
  \/ DeleteLaps
  \/ \E player_UUID \in PlayerUuids : DeleteLastLap(player_UUID)
  \/ PlayerAdmin

SpecSyncAsync == SyncInit /\ [][SyncAsyncNext]_vars

\* the number of rows of laps of a player
LapCount(playerUuid) == Cardinality(LapsOf(playerUuid))

\* the player of a nickname has exactly lap_count rows of laps
HasLaps(nickname, lap_count) ==
  \E r \in playerRows : r.name = nickname /\ LapCount(r.player_uuid) = lap_count

\* C37: with messages processed one after another, the step that ends the
\* processing of a message leaves its player with as many rows of laps as
\* the lap_count of the message, and no step of the processing of a
\* message whose player has that many rows already changes a table.
C37_SyncReachesTarget ==
  [][\A t \in pending :
       /\ (t.op \in {"countLaps", "insertLap", "deleteLaps"}
              /\ t \notin pending' /\ pending' = {}) =>
            LapCount(t.UUID)' = t.lap_count
       /\ (t.op \in {"selectPlayer", "countLaps"}
              /\ t \notin pending' /\ HasLaps(t.nickname, t.lap_count)) =>
            (laps' = laps /\ playerRows' = playerRows)]_vars

\* laps were added, removed and found correct by three messages, and a
\* player has laps
C37_Witness ==
  /\ pending = {}
  /\ answered["added"] >= 1 /\ answered["removed"] >= 1
  /\ answered["correct"] >= 1
  /\ laps # {}

\* C38: with messages in flight together and no request of the routes that
\* write players and laps served, no player has more rows of laps than the
\* largest lap_count a message can carry.
C38_LapsAtMostLargestTarget ==
  adminRequests = 0 =>
    \A playerUuid \in {r.player_uuid : r \in laps} :
       LapCount(playerUuid) <= MaxTarget

\* C39: as long as the rows of players come from WebSocket messages alone
\* (no request of the routes that write players and laps was served), no two
\* rows of players have the same name.
C39_OnePlayerPerNickname ==
  adminRequests = 0 =>
    \A nickname \in Nicknames :
       Cardinality({r \in playerRows : r.name = nickname}) <= 1

\* C40: a call of DELETE /api/players/:id/lap for a player without laps
\* answers 404 and leaves laps unchanged; for a player with laps it removes
\* exactly one row, of that player, with its largest timestamp.
C40_DeleteLastLapRemovesOne ==
  [][\A player_UUID \in PlayerUuids :
       DeleteLastLap(player_UUID) =>
          IF LapsOf(player_UUID) = {}
          THEN laps' = laps /\ answered'["404"] = answered["404"] + 1
          ELSE /\ laps' \subseteq laps
               /\ Cardinality(laps \ laps') = 1
               /\ \A r \in laps \ laps' :
                     /\ r.player_uuid = player_UUID
                     /\ r.timestamp = MaxTimestamp(LapsOf(player_UUID))]_vars

====
